---- MODULE Spec2Model ----
(***************************************************************************)
(* ENACT backend: parenting-tip recommendation service.                    *)
(*                                                                         *)
(* Ten state machines share one set of variables:                          *)
(*   SpecGen     - the retry loop of generateTipsWithAI                    *)
(*   SpecLedger  - interaction recording and the preference store          *)
(*   SpecCache   - interaction recording next to cached preference reads   *)
(*   Spec        - the request handlers (guardrail, retrieval, generation) *)
(*   SpecStream  - one WebSocket connection streaming generated tips       *)
(*   SpecPersist - reactions to tips, with generated tips persisted        *)
(*   SpecProfile - likes and dislikes recomputing the preference vector    *)
(*   SpecSubmit  - two submissions of a generated tip, query by query      *)
(*   SpecSurvey  - survey submission next to recorded reactions            *)
(*   SpecSelect  - random tip selection by location type                   *)
(*                                                                         *)
(* Text is a sequence of lower-case words; a similarity is an integer in   *)
(* units of 1/10000; an embedding is a pair of integers.                   *)
(***************************************************************************)
EXTENDS Integers, Sequences, FiniteSets, TLC

VARIABLES
    \* ---- generateTipsWithAI (one call in progress at most) ----
    genPc,            \* "idle" | "loop" | "returned"
    genQuery,         \* query argument of the call
    genCount,         \* count argument of the call
    attempt,          \* loop variable `attempt`
    lastError,        \* local `lastError` (message of the last failure)
    providerCalls,    \* number of openai.chat.completions.create calls made
    attemptLog,       \* history: what the provider answered on each attempt
    waits,            \* history: seconds waited after each failed attempt
    genReturn         \* value returned by the call

genVars == <<genPc, genQuery, genCount, attempt, lastError, providerCalls,
             attemptLog, waits, genReturn>>

VARIABLES
    \* ---- MySQL tables ----
    tips,                      \* ids of the rows of `tips`
    tip_embeddings,            \* tip id -> embedding, for tips that have one
    user_tip_interactions,     \* rows <<user_id, tip_id, interaction_type>>
    user_preference_profiles,  \* user id -> None or the profile row
    \* ---- process memory ----
    userPreferenceCache,       \* user id -> None or the cached context
    \* ---- requests in flight ----
    rec,                       \* recording request handled in each slot
    reader,                    \* an analyzeUserPreferences call
    started,                   \* history: recording requests started so far
    reads,                     \* history: preference reads started so far
    overlapped                 \* history: two recordings were ever in flight
                               \*          at the same time

dbVars == <<tips, tip_embeddings, user_tip_interactions,
            user_preference_profiles>>

ledgerVars == <<dbVars, userPreferenceCache, rec, reader, started, reads,
                overlapped>>

VARIABLES
    \* ---- one tip request (REST or streaming) ----
    request,          \* None, or the request with what the guard decided
    calls,            \* history: provider and retrieval calls, in order
    response,         \* None, or what the caller received
    \* ---- MySQL table read by the survey handlers ----
    user_survey_responses, \* user id -> None or the survey row
    survey_profile,   \* user id -> None or the columns survey_embedding and
                      \* survey_weight of the row of user_preference_profiles
    \* ---- one streaming connection, step by step ----
    wsConn,           \* the socket `ws` and the locals of its handlers
    wsTrace           \* history: provider output, lines handled, tips
                      \*          passed to onTip

wsVars == <<wsConn, wsTrace>>

VARIABLES
    \* ---- generated tips persisted on a reaction ----
    tipRows,          \* id -> columns of the rows inserted into `tips`
    reactions,        \* history: the reaction requests handled so far
    subs,             \* submissions of a generated tip, step by step
    \* ---- one random tip selection request ----
    selection         \* the locals of the handler and what it answered

persistVars == <<tipRows, reactions, subs, selection>>

pipeVars == <<request, calls, response, user_survey_responses,
              survey_profile, wsVars,
              persistVars>>

vars == <<genVars, ledgerVars, pipeVars>>

(***************************************************************************)
(* Bounds                                                                  *)
(***************************************************************************)
MaxItems == 2        \* tips in one provider answer
MaxTips == 2         \* rows of the tips table
MaxRequests == 2     \* recording requests in one behaviour
MaxBatch == 2        \* items in one batch request
MaxReads == 2        \* preference reads in one behaviour

(***************************************************************************)
(* Generic helpers                                                         *)
(***************************************************************************)
None == [none |-> TRUE]

Take(s, n) == SubSeq(s, 1, IF Len(s) < n THEN Len(s) ELSE n)

RECURSIVE Flatten(_)
Flatten(ss) == IF ss = <<>> THEN <<>> ELSE Head(ss) \o Flatten(Tail(ss))

\* String.prototype.includes on word sequences: needle occurs contiguously
\* in hay, compared case-sensitively word by word.
Includes(hay, needle) ==
    \E i \in 0..(Len(hay) - Len(needle)) :
        \A j \in 1..Len(needle) : hay[i + j] = needle[j]

(***************************************************************************)
(* sanitizeTipText: each pattern is applied with String.replace and a      *)
(* regular expression without the g flag, so it rewrites the FIRST match   *)
(* only.                                                                   *)
(***************************************************************************)
UrlWords       == {"http://x.io", "www.x.io"}
ContactWords   == {"phone", "email"}
ProfanityWords == {"shit", "die"}

RECURSIVE ReplaceFirst(_, _, _)
ReplaceFirst(ws, bad, mark) ==
    IF ws = <<>> THEN <<>>
    ELSE IF Head(ws) \in bad THEN <<mark>> \o Tail(ws)
    ELSE <<Head(ws)>> \o ReplaceFirst(Tail(ws), bad, mark)

sanitizeTipText(text) ==
    LET t1 == ReplaceFirst(text, UrlWords, "[link removed]")
        t2 == ReplaceFirst(t1, ContactWords, "[contact removed]")
    IN  ReplaceFirst(t2, ProfanityWords, "[language removed]")

(***************************************************************************)
(* Provider answers.  A raw tip has a title (words) and body / details     *)
(* given as sequences of sentences (each a sequence of words).             *)
(***************************************************************************)
RawTipA == [title   |-> <<"vocabulary", "games">>,
            body    |-> << <<"name", "objects">>, <<"ask", "questions">>,
                           <<"repeat", "daily">> >>,
            details |-> << <<"keep", "it", "short">>, <<"have", "fun">> >>]

RawTipB == [title   |-> <<"story", "time">>,
            body    |-> << <<"read", "www.x.io", "aloud">> >>,
            details |-> << <<"email", "phone", "friends">> >>]

RawTips == {RawTipA, RawTipB}

RECURSIVE SeqsUpTo(_, _)
SeqsUpTo(S, n) ==
    IF n = 0 THEN {<<>>}
    ELSE LET shorter == SeqsUpTo(S, n - 1)
         IN  shorter \cup {Append(s, x) : s \in {t \in shorter : Len(t) = n - 1},
                                          x \in S}

\* Content forms: "array"  - the content is a JSON array
\*                "prose"  - text around a JSON array (found by the regex)
\*                "object" - a JSON object with a `tips` member
\*                "garbage"- no JSON array anywhere
\*                "blank"  - empty / whitespace content
ContentOutcomes ==
    {[kind |-> "content", form |-> f, items |-> it] :
        f \in {"array", "prose", "object"}, it \in SeqsUpTo(RawTips, MaxItems)}
    \cup {[kind |-> "content", form |-> f, items |-> <<>>] :
            f \in {"garbage", "blank"}}

\* Errors thrown by the provider client.  `class` is what the provider
\* reports (HTTP 429 rate_limit_exceeded / insufficient_quota, 5xx);
\* `message` is Error.message as a word sequence.
ErrorOutcomes ==
    {[kind |-> "error", class |-> "rate_limit",
      message |-> <<"429", "Rate", "limit", "reached", "for", "requests">>],
     [kind |-> "error", class |-> "rate_limit",
      message |-> <<"rate", "limit", "exceeded">>],
     [kind |-> "error", class |-> "quota",
      message |-> <<"429", "You", "exceeded", "your", "current", "quota">>],
     [kind |-> "error", class |-> "server",
      message |-> <<"500", "Internal", "server", "error">>]}

TimeoutOutcome == [kind |-> "timeout"]

Outcomes == ContentOutcomes \cup ErrorOutcomes \cup {TimeoutOutcome}

(***************************************************************************)
(* generateTipsWithAI                                                      *)
(***************************************************************************)
maxRetries == 3

\* The marker that starts the reframing note appended to a prompt.
ContextMarker == "\\n\\nContext:"

\* String.slice(0, n) on a word sequence: the longest prefix of whole words
\* that fits in n characters (a word cut in the middle is dropped).
RECURSIVE SliceChars(_, _)
SliceChars(ws, n) ==
    IF ws = <<>> \/ Len(Head(ws)) > n THEN <<>>
    ELSE <<Head(ws)>> \o SliceChars(Tail(ws), n - Len(Head(ws)) - 1)

TitleMaxChars == 50
CleanQueryMaxChars == 100

\* formattedTips.map(...) followed by the sanitizing map.
FormatTip(tip, index, query) ==
    LET title   == SliceChars(IF tip.title = <<>>
                              THEN <<"tip", ToString(index)>>
                              ELSE tip.title, TitleMaxChars)
        body    == Flatten(Take(tip.body, 2))
        details == IF tip.details = <<>>
                   THEN <<"ai-generated", "tip", "about">> \o query
                   ELSE Flatten(Take(tip.details, 1))
    IN  [id         |-> <<"generated", index>>,
         title      |-> sanitizeTipText(title),
         body       |-> sanitizeTipText(body),
         details    |-> sanitizeTipText(details),
         categories |-> <<"generated">>]

CleanTips(items, query) ==
    [i \in 1..Len(items) |-> FormatTip(items[i], i, query)]

\* Body of the try block after the provider call has settled: either the
\* clean tips or the message of the error that is thrown.
TryAttempt(o, query) ==
    IF o.kind = "timeout"
    THEN [ok |-> FALSE, message |-> <<"OpenAI", "timeout">>]
    ELSE IF o.kind = "error"
    THEN [ok |-> FALSE, message |-> o.message]
    ELSE IF o.form = "blank"
    THEN [ok |-> FALSE,
          message |-> <<"Empty", "response", "from", "OpenAI">>]
    ELSE IF o.form = "garbage"
    THEN [ok |-> FALSE,
          message |-> <<"No", "JSON", "array", "found", "in", "response">>]
    ELSE IF Len(o.items) = 0
    THEN [ok |-> FALSE,
          message |-> <<"Parsed", "response", "does", "not", "contain", "a",
                        "valid", "tips", "array">>]
    ELSE [ok |-> TRUE, tips |-> CleanTips(o.items, query)]

\* The test in the catch block that leaves the loop.
StopsRetrying(message) ==
    Includes(message, <<"rate", "limit">>) \/ Includes(message, <<"quota">>)

\* A for statement that runs one more round.
LoopContinues_FourRounds(n) == n <= maxRetries + 1

\* The loop condition of the for statement.
LoopContinues(n) == n <= maxRetries

\* A fallback generator that yields no tip.
generateFallbackTips_NoTips(query, count) == <<>>

RECURSIVE CleanQuery(_)
CleanQuery(query) ==
    IF query = <<>> \/ Head(query) = ContextMarker THEN <<>>
    ELSE <<Head(query)>> \o CleanQuery(Tail(query))

generateFallbackTips(query, count) ==
    LET cq == SliceChars(CleanQuery(query), CleanQueryMaxChars)
        fallbackTips ==
          << [id         |-> <<"fallback", 1>>,
              title      |-> <<"getting", "started", "with">> \o cq,
              body       |-> <<"here", "are", "gentle", "practical",
                               "approaches", "to", "help", "with">> \o cq
                             \o <<"start", "small", "observe", "your",
                                  "child", "and", "iterate">>,
              details    |-> <<"every", "child", "is", "different", "adjust",
                               "strategies", "while", "focusing", "on">> \o cq,
              categories |-> <<"general">>],
             [id         |-> <<"fallback", 2>>,
              title      |-> <<"making">> \o cq \o <<"easier">>,
              body       |-> <<"break">> \o cq
                             \o <<"into", "small", "steps", "use", "clear",
                                  "cues", "and", "consistent", "routines">>,
              details    |-> <<"celebrate", "small", "wins", "to", "build",
                               "momentum", "with">> \o cq,
              categories |-> <<"general">>] >>
    IN  Take(fallbackTips, count)

\* A word of 60 characters: two of them and the blank between them exceed
\* the 100 characters that generateFallbackTips keeps of a query.
LongWord == "vocabulary-vocabulary-vocabulary-vocabulary-vocabulary-games"

GenQueries == { <<"toddler", "vocabulary">>,
                <<"toddler", ContextMarker, "this", "question", "is",
                  "about", "my", "child">>,
                <<LongWord, LongWord>> }
GenCounts == {1, 6}

GenIdle ==
    /\ genPc = "idle" /\ genQuery = <<>> /\ genCount = 0 /\ attempt = 0
    /\ lastError = None /\ providerCalls = 0 /\ attemptLog = <<>>
    /\ waits = <<>>
    /\ genReturn = None

\* Entry of generateTipsWithAI up to the first provider call.
GenStart(query, count) ==
    /\ genPc = "idle"
    /\ genPc' = "loop"
    /\ genQuery' = query
    /\ genCount' = count
    /\ attempt' = 1
    /\ UNCHANGED <<lastError, providerCalls, attemptLog, waits, genReturn>>
    /\ UNCHANGED <<ledgerVars, pipeVars>>

\* Seconds the catch block waits after a failed attempt: it sets lastError,
\* tests the message and ends, with no timer before the next iteration.
BackoffSeconds(k, message) == 0

\* One iteration of the retry loop: the provider call settles with outcome
\* o, the rest of the try block or the catch block runs, and control either
\* returns, leaves the loop (fallback) or reaches the next provider call.
GenAttempt(o) ==
    /\ genPc = "loop"
    /\ LoopContinues(attempt)
    /\ providerCalls' = providerCalls + 1
    /\ attemptLog' = Append(attemptLog, o)
    /\ LET r == TryAttempt(o, genQuery) IN
       IF r.ok
       THEN /\ genReturn' = r.tips
            /\ genPc' = "returned"
            /\ UNCHANGED <<attempt, lastError, waits>>
       ELSE /\ lastError' = r.message
            /\ waits' = Append(waits, BackoffSeconds(attempt, r.message))
            /\ IF StopsRetrying(r.message) \/ ~LoopContinues(attempt + 1)
               THEN /\ genReturn' = generateFallbackTips(genQuery, genCount)
                    /\ genPc' = "returned"
                    /\ attempt' = attempt
               ELSE /\ attempt' = attempt + 1
                    /\ UNCHANGED <<genPc, genReturn>>
    /\ UNCHANGED <<genQuery, genCount>>
    /\ UNCHANGED <<ledgerVars, pipeVars>>


(***************************************************************************)
(* Claims about generateTipsWithAI                                         *)
(***************************************************************************)
\* A provider answer that carries a non-empty tips array.
IsValidAnswer(o) ==
    /\ o.kind = "content"
    /\ o.form \in {"array", "prose", "object"}
    /\ Len(o.items) > 0

IsMalformedAnswer(o) == o.kind = "content" /\ o.form = "garbage"

\* C9: a call makes at most three provider attempts, stops at the first
\* attempt whose answer holds a valid non-empty tips array and returns
\* exactly the tips of that attempt; in particular after two malformed
\* answers and a valid third one it returns the third answer's tips after
\* exactly three provider calls.
C9_FirstValidAttemptReturned ==
    /\ providerCalls <= 3
    /\ providerCalls = Len(attemptLog)
    /\ \A i \in 1..Len(attemptLog) :
          IsValidAnswer(attemptLog[i]) =>
             /\ i = Len(attemptLog)
             /\ genPc = "returned"
             /\ genReturn = CleanTips(attemptLog[i].items, genQuery)
    /\ ( /\ Len(attemptLog) >= 2
         /\ IsMalformedAnswer(attemptLog[1])
         /\ IsMalformedAnswer(attemptLog[2])
         /\ genPc = "returned" )
       => /\ providerCalls = 3
          /\ IsValidAnswer(attemptLog[3]) =>
                genReturn = CleanTips(attemptLog[3].items, genQuery)

C9_Witness ==
    /\ genPc = "returned"
    /\ Len(attemptLog) = 3
    /\ IsMalformedAnswer(attemptLog[1])
    /\ IsMalformedAnswer(attemptLog[2])
    /\ IsValidAnswer(attemptLog[3])
    /\ providerCalls = 3
    /\ genReturn = CleanTips(attemptLog[3].items, genQuery)

\* An attempt that failed with a rate-limit or quota error of the provider.
IsRateLimitOrQuota(o) ==
    o.kind = "error" /\ o.class \in {"rate_limit", "quota"}

\* C10: once an attempt fails with a rate-limit or quota error of the
\* provider, the call makes no further attempt.
C10_NoAttemptAfterRateLimit ==
    \A i \in 1..Len(attemptLog) :
        IsRateLimitOrQuota(attemptLog[i]) => i = Len(attemptLog)

\* Every attempt of the call so far has failed.
AllAttemptsFailed ==
    /\ Len(attemptLog) >= 1
    /\ \A i \in 1..Len(attemptLog) : ~TryAttempt(attemptLog[i], genQuery).ok

\* The text of a tip: title, body and details.
TipText(tip) == tip.title \o tip.body \o tip.details

IsFallbackTip(tip) == tip.id[1] = "fallback"

\* The query as the fallback tips show it: the reframing note that starts
\* at the context marker removed, then cut to the first 100 characters.
DisplayedQuery(query) == SliceChars(CleanQuery(query), CleanQueryMaxChars)

\* A call that returned after all its attempts failed returned a non-empty
\* list of fallback tips, and a call never rests with its loop exhausted
\* and nothing returned.
FallbackReturned ==
    /\ (genPc = "returned" /\ AllAttemptsFailed) =>
          /\ Len(genReturn) >= 1
          /\ \A i \in 1..Len(genReturn) : IsFallbackTip(genReturn[i])
    /\ genPc = "loop" => LoopContinues(attempt)
    /\ genPc \in {"idle", "loop", "returned"}

\* C11 as stated: when every generation attempt of a call fails (three
\* failures, or an early stop on a rate-limit/quota error), the call
\* returns a non-empty list of fallback tips and the text of every one of
\* them contains the query text it was called with.
C11_FallbackContainsQuery ==
    /\ FallbackReturned
    /\ (genPc = "returned" /\ AllAttemptsFailed) =>
          \A i \in 1..Len(genReturn) :
              Includes(TipText(genReturn[i]), genQuery)

\* C11 amended: when every generation attempt of a call fails, the call
\* returns a non-empty list of fallback tips and the text of every one of
\* them contains the query as displayed: the reframing note removed and
\* the rest cut to its first 100 characters.
C11_FallbackContainsDisplayedQuery ==
    /\ FallbackReturned
    /\ (genPc = "returned" /\ AllAttemptsFailed) =>
          \A i \in 1..Len(genReturn) :
              Includes(TipText(genReturn[i]), DisplayedQuery(genQuery))

\* Three failed attempts of a reframed query answered by fallback tips.
C11_Witness ==
    /\ genPc = "returned"
    /\ AllAttemptsFailed
    /\ Len(attemptLog) = 3
    /\ ContextMarker \in {genQuery[i] : i \in 1..Len(genQuery)}
    /\ Len(genReturn) = 2
    /\ IsFallbackTip(genReturn[1])

(***************************************************************************)
(* Embeddings.  A provider embedding is an integer pair of length 25; a    *)
(* stored unit vector is written as the primitive integer pair pointing    *)
(* the same way (<<0, 0>> is the zero vector).                             *)
(***************************************************************************)
Zero == <<0, 0>>

VAdd(a, b) == <<a[1] + b[1], a[2] + b[2]>>
VScale(k, a) == <<k * a[1], k * a[2]>>
Dot(a, b) == a[1] * b[1] + a[2] * b[2]
Abs(x) == IF x < 0 THEN -x ELSE x

RECURSIVE Gcd(_, _)
Gcd(a, b) == IF b = 0 THEN a ELSE Gcd(b, a % b)

\* pref.map(x => x / norm) with norm = sqrt(sum of squares) || 1
Normalize(v) ==
    IF v = Zero THEN Zero
    ELSE LET g == Gcd(Abs(v[1]), Abs(v[2])) IN <<v[1] \div g, v[2] \div g>>

\* Embedding the provider returned for each catalog tip.
CatalogEmbedding(t) ==
    CASE t = 1 -> <<24, 7>>
      [] t = 2 -> <<7, 24>>
      [] t = 3 -> <<-7, 24>>
      [] OTHER -> <<25, 0>>

\* tips.type of each catalog tip.
CatalogType(t) ==
    CASE t = 1 -> "language"
      [] t = 2 -> "science"
      [] OTHER -> "literacy"

\* title and description of each catalog tip, lower-cased.
CatalogText(t) ==
    CASE t = 1 -> <<"vocabulary", "games", "play", "naming", "games">>
      [] t = 2 -> <<"nature", "walk", "calm", "observe", "plants">>
      [] t = 3 -> <<"story", "time", "read", "a", "book">>
      [] OTHER -> <<"feelings", "chart", "name", "emotions">>

CatalogTips == 1..MaxTips
MissingTip  == MaxTips + 1   \* an id with no row in `tips`
UserIds     == {1, 2}
users       == {1}           \* ids of the rows of `users`
Procs       == {1, 2}        \* request slots

RECURSIVE SumEmbeddings(_, _)
SumEmbeddings(emb, T) ==
    IF T = {} THEN Zero
    ELSE LET t == CHOOSE x \in T : TRUE
         IN  VAdd(emb[t], SumEmbeddings(emb, T \ {t}))

(***************************************************************************)
(* updateUserPreferenceProfile: the vector and the count computed from the *)
(* embeddings of the liked tips L and the disliked tips D.                 *)
(***************************************************************************)
alpha == <<3, 5>>            \* 0.6 as a fraction

PreferenceVector(emb, L, D) ==
    LET sumL == SumEmbeddings(emb, L)
        sumD == SumEmbeddings(emb, D)
        nL   == Cardinality(L)
        nD   == Cardinality(D)
        \* likeAvg - alpha * dislikeAvg, times alpha[2] * nL * nD
        pref == IF L # {} /\ D # {}
                THEN VAdd(VScale(alpha[2] * nD, sumL),
                          VScale(-(alpha[1] * nL), sumD))
                ELSE IF L # {} THEN sumL ELSE sumD
    IN  Normalize(pref)

ProfileRow(emb, L, D) ==
    [preference_embedding |-> PreferenceVector(emb, L, D),
     total_interactions   |-> Cardinality(L) + Cardinality(D)]

\* Rows of user u of one interaction type, joined with tip_embeddings.
EmbeddedRows(u, type) ==
    {t \in DOMAIN tip_embeddings : <<u, t, type>> \in user_tip_interactions}

(***************************************************************************)
(* analyzeUserPreferences: the context built from the liked tips.          *)
(***************************************************************************)
PreferenceGroups ==
    {[label |-> "active/outdoor activities",
      words |-> {"outdoor", "active", "play"}],
     [label |-> "calm/gentle approaches",
      words |-> {"calm", "quiet", "gentle"}],
     [label |-> "creative activities",
      words |-> {"creative", "art", "imagination"}],
     [label |-> "structured routines",
      words |-> {"routine", "structure", "schedule"}],
     [label |-> "child independence",
      words |-> {"independent", "choice", "decide"}]}

WordsOf(seq) == {seq[i] : i \in 1..Len(seq)}

\* The empty context is the empty string; any other context names the
\* categories and the approaches found in the liked tips.
EmptyContext == [categories |-> {}, preferences |-> {}]

PreferenceContext(liked) ==
    IF liked = {} THEN EmptyContext
    ELSE [categories  |-> {CatalogType(t) : t \in liked},
          preferences |-> {g.label : g \in
                             {h \in PreferenceGroups :
                                \E t \in liked :
                                   WordsOf(CatalogText(t)) \cap h.words # {}}}]

\* Liked tips of user u joined with tips.
LikedTips(u) ==
    {t \in tips : <<u, t, "like">> \in user_tip_interactions}

(***************************************************************************)
(* Recording requests: POST /interactions and POST /ai-interactions/batch, *)
(* each running trackUserInteraction and updateUserPreferenceProfile.      *)
(* A step is one database statement together with the code that follows it *)
(* up to the next statement; code that touches the preference cache is a   *)
(* step of its own.                                                        *)
(***************************************************************************)
validTypes == {"like", "dislike", "save", "unsave"}

Items == [tipId : CatalogTips \cup {MissingTip}, interactionType : validTypes]

IdleRec ==
    [pc |-> "idle", endpoint |-> "none", userId |-> 0, tipId |-> 0,
     interactionType |-> "none", queue |-> <<>>, persisted |-> 0,
     likes |-> {}, dislikes |-> {}, existing |-> FALSE,
     response |-> None,
     \* history of this request
     wrote |-> FALSE, missing |-> FALSE, removed |-> FALSE]

InFlight(p) == rec[p].pc \notin {"idle", "responded"}

Quiescent == \A p \in Procs : ~InFlight(p)

\* The handler after trackUserInteraction has returned (success) or thrown.
AfterTrack(r, success) ==
    IF r.endpoint = "single"
    THEN [r EXCEPT !.pc = "responded",
                   !.response = IF success
                                THEN [status |-> 200, ok |-> TRUE, count |-> 1]
                                ELSE [status |-> 500, ok |-> FALSE, count |-> 0]]
    ELSE LET n == r.persisted + (IF success THEN 1 ELSE 0) IN
         IF r.queue = <<>>
         THEN [r EXCEPT !.pc = "responded", !.persisted = n,
                        !.response = [status |-> 200, ok |-> TRUE, count |-> n]]
         ELSE [r EXCEPT !.pc = "tipCheck", !.persisted = n,
                        !.tipId = Head(r.queue).tipId,
                        !.interactionType = Head(r.queue).interactionType,
                        !.queue = Tail(r.queue)]

BeginRequest(p, endpoint, u, items) ==
    /\ ~InFlight(p)
    /\ \A q \in Procs : q < p => InFlight(q)     \* slots are interchangeable
    /\ started < MaxRequests
    /\ started' = started + 1
    /\ overlapped' = (overlapped \/ \E q \in Procs \ {p} : InFlight(q))
    /\ rec' = [rec EXCEPT ![p] =
                 [IdleRec EXCEPT !.pc = "tipCheck", !.endpoint = endpoint,
                                 !.userId = u,
                                 !.tipId = Head(items).tipId,
                                 !.interactionType = Head(items).interactionType,
                                 !.queue = Tail(items)]]
    /\ reader' = [reader EXCEPT !.clean = FALSE]
    /\ UNCHANGED <<dbVars, userPreferenceCache, reads>>
    /\ UNCHANGED <<genVars, pipeVars>>

\* POST /interactions with a valid type and a numeric tip id.
PostInteractions(p, u, item) ==
    /\ item.interactionType \in validTypes
    /\ BeginRequest(p, "single", u, <<item>>)

\* POST /ai-interactions/batch with valid items carrying numeric tip ids.
PostBatch(p, u, items) ==
    /\ Len(items) >= 1
    /\ BeginRequest(p, "batch", u, items)

LedgerFrame ==
    /\ UNCHANGED <<tips, tip_embeddings, started, reads, overlapped, reader>>
    /\ UNCHANGED <<genVars, pipeVars>>

\* SELECT id FROM tips WHERE id = ?
TipCheck(p) ==
    /\ rec[p].pc = "tipCheck"
    /\ rec' = [rec EXCEPT ![p] =
                 IF rec[p].tipId \in tips
                 THEN [@ EXCEPT !.pc = "userCheck"]
                 ELSE AfterTrack([@ EXCEPT !.missing = TRUE], FALSE)]
    /\ UNCHANGED <<user_tip_interactions, user_preference_profiles,
                   userPreferenceCache>>
    /\ LedgerFrame

\* SELECT id FROM users WHERE id = ?
UserCheck(p) ==
    /\ rec[p].pc = "userCheck"
    /\ rec' = [rec EXCEPT ![p] =
                 IF rec[p].userId \in users
                 THEN [@ EXCEPT !.pc = "write1"]
                 ELSE AfterTrack([@ EXCEPT !.missing = TRUE], FALSE)]
    /\ UNCHANGED <<user_tip_interactions, user_preference_profiles,
                   userPreferenceCache>>
    /\ LedgerFrame

Opposite(type) == IF type = "like" THEN "dislike" ELSE "like"

\* A DELETE statement removing nothing.
DeleteInteraction_KeepsRow(rows, u, t, type) == rows

\* A DELETE statement without the interaction_type condition.
DeleteInteraction_AnyType(rows, u, t, type) ==
    {r \in rows : ~(r[1] = u /\ r[2] = t)}

\* DELETE FROM user_tip_interactions WHERE user_id, tip_id, interaction_type
DeleteInteraction(rows, u, t, type) == rows \ {<<u, t, type>>}

\* An INSERT that removes the row when it is already there.
InsertInteraction_Toggle(rows, u, t, type) ==
    IF <<u, t, type>> \in rows THEN rows \ {<<u, t, type>>}
    ELSE rows \cup {<<u, t, type>>}

\* INSERT IGNORE INTO user_tip_interactions
InsertInteraction(rows, u, t, type) == rows \cup {<<u, t, type>>}

\* First statement of the interaction logic.
Write1(p) ==
    LET r == rec[p] IN
    /\ r.pc = "write1"
    /\ CASE r.interactionType \in {"like", "dislike"} ->
              /\ user_tip_interactions' =
                    DeleteInteraction(user_tip_interactions, r.userId,
                                      r.tipId, Opposite(r.interactionType))
              /\ rec' = [rec EXCEPT ![p].pc = "write2", ![p].wrote = TRUE,
                           ![p].removed =
                              (<<r.userId, r.tipId, Opposite(r.interactionType)>>
                                  \in user_tip_interactions)]
         [] r.interactionType = "save" ->
              /\ user_tip_interactions' =
                    InsertInteraction(user_tip_interactions, r.userId,
                                      r.tipId, "save")
              /\ rec' = [rec EXCEPT ![p].pc = "readLikes", ![p].wrote = TRUE]
         [] r.interactionType = "unsave" ->
              /\ user_tip_interactions' =
                    DeleteInteraction(user_tip_interactions, r.userId,
                                      r.tipId, "save")
              /\ rec' = [rec EXCEPT ![p].pc = "readLikes", ![p].wrote = TRUE]
    /\ UNCHANGED <<user_preference_profiles, userPreferenceCache>>
    /\ LedgerFrame

\* Second statement of like / dislike: the INSERT IGNORE.
Write2(p) ==
    LET r == rec[p] IN
    /\ r.pc = "write2"
    /\ user_tip_interactions' =
          InsertInteraction(user_tip_interactions, r.userId, r.tipId,
                            r.interactionType)
    /\ rec' = [rec EXCEPT ![p].pc = "readLikes"]
    /\ UNCHANGED <<user_preference_profiles, userPreferenceCache>>
    /\ LedgerFrame

\* updateUserPreferenceProfile: SELECT the embeddings of the liked tips.
ReadLikes(p) ==
    /\ rec[p].pc = "readLikes"
    /\ rec' = [rec EXCEPT ![p].pc = "readDislikes",
                          ![p].likes = EmbeddedRows(rec[p].userId, "like")]
    /\ UNCHANGED <<user_tip_interactions, user_preference_profiles,
                   userPreferenceCache>>
    /\ LedgerFrame

\* updateUserPreferenceProfile: SELECT the embeddings of the disliked tips.
ReadDislikes(p) ==
    LET D == EmbeddedRows(rec[p].userId, "dislike") IN
    /\ rec[p].pc = "readDislikes"
    /\ rec' = [rec EXCEPT ![p].dislikes = D,
                          ![p].pc = IF rec[p].likes = {} /\ D = {}
                                    THEN "zeroUpdate" ELSE "readExisting"]
    /\ UNCHANGED <<user_tip_interactions, user_preference_profiles,
                   userPreferenceCache>>
    /\ LedgerFrame

\* UPDATE user_preference_profiles SET total_interactions = 0
ZeroUpdate(p) ==
    LET u == rec[p].userId IN
    /\ rec[p].pc = "zeroUpdate"
    /\ user_preference_profiles' =
          IF user_preference_profiles[u] = None THEN user_preference_profiles
          ELSE [user_preference_profiles EXCEPT ![u].total_interactions = 0]
    /\ rec' = [rec EXCEPT ![p].pc = "trackReturn"]
    /\ UNCHANGED <<user_tip_interactions, userPreferenceCache>>
    /\ LedgerFrame

\* SELECT id FROM user_preference_profiles WHERE user_id = ?
ReadExisting(p) ==
    /\ rec[p].pc = "readExisting"
    /\ rec' = [rec EXCEPT ![p].pc = "writeProfile",
                 ![p].existing =
                    (user_preference_profiles[rec[p].userId] # None)]
    /\ UNCHANGED <<user_tip_interactions, user_preference_profiles,
                   userPreferenceCache>>
    /\ LedgerFrame

\* UPDATE or INSERT of the profile row.  user_id is a unique key, so the
\* INSERT fails when a row has appeared since ReadExisting; the error is
\* caught in trackUserInteraction, which then returns normally without
\* touching the cache.
WriteProfile(p) ==
    LET r   == rec[p]
        row == ProfileRow(tip_embeddings, r.likes, r.dislikes)
    IN
    /\ r.pc = "writeProfile"
    /\ IF ~r.existing /\ user_preference_profiles[r.userId] # None
       THEN /\ rec' = [rec EXCEPT ![p] = AfterTrack(r, TRUE)]
            /\ UNCHANGED user_preference_profiles
       ELSE /\ user_preference_profiles' =
                  [user_preference_profiles EXCEPT ![r.userId] = row]
            /\ rec' = [rec EXCEPT ![p].pc = "trackReturn"]
    /\ UNCHANGED <<user_tip_interactions, userPreferenceCache>>
    /\ LedgerFrame

\* After updateUserPreferenceProfile resolved: userPreferenceCache.delete,
\* trackUserInteraction returns and the handler goes on.
TrackReturn(p) ==
    /\ rec[p].pc = "trackReturn"
    /\ userPreferenceCache' = [userPreferenceCache EXCEPT ![rec[p].userId] = None]
    /\ rec' = [rec EXCEPT ![p] = AfterTrack(rec[p], TRUE)]
    /\ UNCHANGED <<user_tip_interactions, user_preference_profiles>>
    /\ LedgerFrame

(***************************************************************************)
(* analyzeUserPreferences for the existing user.                           *)
(***************************************************************************)
IdleReader ==
    [pc |-> "idle", userId |-> 0, liked |-> {}, result |-> None,
     \* history: the read started while no recording was in flight, none
     \* has started since, and no two recordings ever overlapped
     clean |-> FALSE]

ReaderFrame ==
    /\ UNCHANGED <<dbVars, rec, started, overlapped>>
    /\ UNCHANGED <<genVars, pipeVars>>

\* Entry: the cache lookup; on a miss the SELECT is issued.
ReadStart(u) ==
    /\ reader.pc \in {"idle", "returned"}
    /\ reads < MaxReads
    /\ reads' = reads + 1
    /\ reader' =
          IF userPreferenceCache[u] # None
          THEN [pc |-> "returned", userId |-> u, liked |-> {},
                result |-> userPreferenceCache[u],
                clean |-> Quiescent /\ ~overlapped]
          ELSE [pc |-> "query", userId |-> u, liked |-> {},
                result |-> None, clean |-> Quiescent /\ ~overlapped]
    /\ UNCHANGED userPreferenceCache
    /\ ReaderFrame

\* The SELECT of the liked tips runs in the database.
ReadQuery ==
    /\ reader.pc = "query"
    /\ reader' = [reader EXCEPT !.pc = "finish",
                                !.liked = LikedTips(reader.userId)]
    /\ UNCHANGED <<userPreferenceCache, reads>>
    /\ ReaderFrame

\* The rest of the function: build the context, cache it, return it.
ReadFinish ==
    LET context == PreferenceContext(reader.liked) IN
    /\ reader.pc = "finish"
    /\ userPreferenceCache' =
          [userPreferenceCache EXCEPT ![reader.userId] = context]
    /\ reader' = [reader EXCEPT !.pc = "returned", !.result = context]
    /\ UNCHANGED reads
    /\ ReaderFrame

\* PREFERENCE_CACHE_TTL has passed since the entry was stored.
CacheExpires(u) ==
    /\ userPreferenceCache[u] # None
    /\ userPreferenceCache' = [userPreferenceCache EXCEPT ![u] = None]
    /\ UNCHANGED <<dbVars, rec, reader, started, reads, overlapped>>
    /\ UNCHANGED <<genVars, pipeVars>>

\* No streaming connection has been made.
WsNone ==
    [pc |-> "none", token |-> "none", readyState |-> "CLOSED",
     aborted |-> FALSE, sent |-> <<>>, mode |-> "none", query |-> <<>>,
     queryEmbedding |-> <<0, 0>>, upstream |-> <<>>, buf |-> <<>>,
     counter |-> 0, emitted |-> 0, tip |-> None]

NoTrace ==
    [output |-> <<>>, delivered |-> <<>>, linesAfterAbort |-> 0,
     payloads |-> 0, ended |-> "no"]

\* No submission in the slot.
IdleSub ==
    [pc |-> "idle", path |-> "none", payload |-> None, row |-> None,
     id |-> 0, together |-> FALSE]

\* No random tip selection request has been made.
IdleSelection ==
    [pc |-> "idle", route |-> "", type |-> "", table |-> <<>>,
     random |-> FALSE, rows |-> <<>>, randomIndices |-> <<>>,
     tips |-> <<>>, response |-> None]

PipeIdle ==
    /\ request = None /\ calls = <<>> /\ response = None
    /\ wsConn = WsNone /\ wsTrace = NoTrace
    /\ tipRows = <<>> /\ reactions = <<>>
    /\ subs = [p \in Procs |-> IdleSub]
    /\ survey_profile = [u \in UserIds |-> None]
    /\ selection = IdleSelection

\* No user has answered the survey.
NoSurvey == user_survey_responses = [u \in UserIds |-> None]

LedgerIdle ==
    /\ tips = CatalogTips
    /\ tip_embeddings = [t \in CatalogTips |-> CatalogEmbedding(t)]
    /\ user_tip_interactions = {}
    /\ user_preference_profiles = [u \in UserIds |-> None]
    /\ userPreferenceCache = [u \in UserIds |-> None]
    /\ rec = [p \in Procs |-> IdleRec]
    /\ reader = IdleReader
    /\ started = 0
    /\ reads = 0
    /\ overlapped = FALSE

(***************************************************************************)
(* Specifications                                                          *)
(***************************************************************************)
InitGen == GenIdle /\ LedgerIdle /\ PipeIdle /\ NoSurvey

NextGen ==
    \/ \E q \in GenQueries, c \in GenCounts : GenStart(q, c)
    \/ \E o \in Outcomes : GenAttempt(o)

SpecGen == InitGen /\ [][NextGen]_vars

InitLedger == GenIdle /\ LedgerIdle /\ PipeIdle /\ NoSurvey

\* Request bodies: any item on its own for the existing user, one request
\* of the user that has no row, and batches of likes and dislikes.
BatchItems ==
    {it \in Items : /\ it.interactionType \in {"like", "dislike"}
                    /\ it.tipId \in {1, MissingTip}}

BatchBodies == {s \in SeqsUpTo(BatchItems, MaxBatch) : Len(s) >= 1}

SingleBodies ==
    {<<u, it>> \in UserIds \X Items :
        u \in users \/ (it.tipId = 1 /\ it.interactionType = "like")}

RecorderStep(p) ==
    \/ TipCheck(p)
    \/ UserCheck(p)
    \/ Write1(p)
    \/ Write2(p)
    \/ ReadLikes(p)
    \/ ReadDislikes(p)
    \/ ZeroUpdate(p)
    \/ ReadExisting(p)
    \/ WriteProfile(p)
    \/ TrackReturn(p)

\* Recording requests, two of them possibly in flight at once.
NextLedger ==
    \/ \E p \in Procs, b \in SingleBodies : PostInteractions(p, b[1], b[2])
    \/ \E p \in Procs, u \in users, b \in BatchBodies : PostBatch(p, u, b)
    \/ \E p \in Procs : RecorderStep(p)

SpecLedger == InitLedger /\ [][NextLedger]_vars

\* One recording request at a time next to preference reads.
NextCache ==
    \/ \E it \in Items : PostInteractions(1, 1, it)
    \/ RecorderStep(1)
    \/ \E u \in users : ReadStart(u)
    \/ ReadQuery
    \/ ReadFinish
    \/ \E u \in users : CacheExpires(u)

SpecCache == InitLedger /\ [][NextCache]_vars

(***************************************************************************)
(* Claims about interaction recording                                      *)
(***************************************************************************)
HasBoth(u, t) ==
    /\ <<u, t, "like">> \in user_tip_interactions
    /\ <<u, t, "dislike">> \in user_tip_interactions

\* C4: after any sequence of completed recordings that did not overlap in
\* time, no user has both a like row and a dislike row for the same tip.
C4_LikeDislikeExclusive ==
    (Quiescent /\ ~overlapped) =>
        \A u \in UserIds, t \in tips : ~HasBoth(u, t)

\* A like (or dislike) has completed that removed the opposite row.
C4_Witness ==
    /\ Quiescent
    /\ ~overlapped
    /\ \E p \in Procs :
          /\ rec[p].pc = "responded"
          /\ rec[p].removed
          /\ rec[p].response.status = 200
          /\ rec[p].endpoint = "single"
          /\ <<rec[p].userId, rec[p].tipId, rec[p].interactionType>>
                \in user_tip_interactions

\* The stored profile of user u is what updateUserPreferenceProfile computes
\* from the rows present now.
ProfileMatchesRows(u) ==
    LET L == EmbeddedRows(u, "like")
        D == EmbeddedRows(u, "dislike")
    IN  IF L = {} /\ D = {}
        THEN \/ user_preference_profiles[u] = None
             \/ user_preference_profiles[u].total_interactions = 0
        ELSE user_preference_profiles[u] = ProfileRow(tip_embeddings, L, D)

\* C5: once two overlapping recordings of a user have both returned, the
\* stored profile (vector and count) equals the profile recomputed from the
\* interaction rows present at that moment.
C5_NoLostProfileUpdate ==
    (Quiescent /\ overlapped) => \A u \in users : ProfileMatchesRows(u)

\* C6: a preference read that starts after a recording has returned
\* successfully (and with no recording in flight since) returns the context
\* of the rows present, the new interaction included.
C6_ReadReflectsRecording ==
    ( /\ reader.pc = "returned"
      /\ reader.clean
      /\ rec[1].pc = "responded"
      /\ rec[1].response.status = 200 )
    => reader.result = PreferenceContext(LikedTips(reader.userId))

\* C7: a recording whose tip or user does not exist is reported to the
\* requester as an error and, on the single endpoint, writes nothing.
C7_MissingTargetIsAnError ==
    \A p \in Procs :
        (rec[p].pc = "responded" /\ rec[p].missing) =>
            /\ ~rec[p].response.ok
            /\ rec[p].response.status # 200
            /\ rec[p].endpoint = "single" => ~rec[p].wrote

(***************************************************************************)
(* Similarity and scoring.  A similarity is an integer in units of         *)
(* 1/10000; the cosine is computed on the two vectors scaled to about      *)
(* 1000 and is exact for provider embeddings (length 25).                  *)
(***************************************************************************)
MIN_QUERY_SIM == 4000
STRONG_QUERY_SIM == 5500
LAMBDA_QUERY == 65           \* weights in percent
LAMBDA_PERSONAL == 35
LAMBDA_DISLIKE == 25
DefaultPersonal == 5000      \* let personal = 0.5

\* What 0 / 0 evaluates to in scoreSingleGeneratedTip's local `cosine`.
NaN == -1000000

Max(a, b) == IF a < b THEN b ELSE a

RECURSIVE IsqrtIter(_, _, _)
IsqrtIter(n, lo, hi) ==
    IF lo >= hi THEN lo
    ELSE LET mid == (lo + hi + 1) \div 2
         IN  IF mid * mid <= n THEN IsqrtIter(n, mid, hi)
             ELSE IsqrtIter(n, lo, mid - 1)

\* floor of Math.sqrt(n)
Isqrt(n) == IsqrtIter(n, 0, IF n < 2000 THEN n ELSE 2000)

\* v scaled so that its larger component is about 1000.
Scaled(v) ==
    LET m == Max(Abs(v[1]), Abs(v[2])) IN
    IF m <= 1000 THEN VScale(1000 \div m, v)
    ELSE <<(v[1] * 1000) \div m, (v[2] * 1000) \div m>>

\* dot / (sqrt(na) * sqrt(nb)) for two non-zero vectors.
Quotient(a, b) ==
    LET sa == Scaled(a)
        sb == Scaled(b)
        t  == (Dot(sa, sb) * 1000) \div Isqrt(Dot(sa, sa))
    IN  (t * 10) \div Isqrt(Dot(sb, sb))

\* PersonalizationService.cosineSimilarity: `denom ? dot / denom : 0`
cosineSimilarity(vecA, vecB) ==
    IF vecA = Zero \/ vecB = Zero THEN 0 ELSE Quotient(vecA, vecB)

\* The local `cosine` of scoreSingleGeneratedTip: no test of the denominator.
cosine(a, b) ==
    IF a = Zero \/ b = Zero THEN NaN ELSE Quotient(a, b)

\* Math.round(x * 1000) / 1000
Round3(x) == IF x = NaN THEN NaN ELSE ((x + 5) \div 10) * 10

\* x < y on numbers: false when x is NaN.
Less(x, y) == x # NaN /\ x < y

\* LAMBDA_QUERY * qSim + LAMBDA_PERSONAL * personal
\*   - LAMBDA_DISLIKE * Math.max(0, dislikeSim)
Blend(qSim, personal, dislikeSim) ==
    IF qSim = NaN \/ personal = NaN \/ dislikeSim = NaN THEN NaN
    ELSE (LAMBDA_QUERY * qSim + LAMBDA_PERSONAL * personal
          - LAMBDA_DISLIKE * Max(0, dislikeSim)) \div 100

\* A filter that drops nothing.
OffTopic_Never(qSim) == FALSE

\* The hard filter: `if (qSim < ON_TOPIC.MIN_QUERY_SIM)` drops the tip.
OffTopic(qSim) == Less(qSim, MIN_QUERY_SIM)

\* The dislike centroid of user u (its direction), None without dislikes.
DislikeCentroid(u) ==
    LET D == EmbeddedRows(u, "dislike") IN
    IF D = {} THEN None ELSE SumEmbeddings(tip_embeddings, D)

\* The sort comparator of the two batch scorers.
Compare(a, b) ==
    IF a.is_strong_match = "true" /\ b.is_strong_match # "true" THEN -1
    ELSE IF a.is_strong_match # "true" /\ b.is_strong_match = "true" THEN 1
    ELSE IF b.query_relevance # a.query_relevance
    THEN b.query_relevance - a.query_relevance
    ELSE b.similarity_score - a.similarity_score

\* Array.prototype.sort is stable: x goes after every element that does
\* not compare greater than it.
RECURSIVE InsertSorted(_, _)
InsertSorted(x, sorted) ==
    IF sorted = <<>> THEN <<x>>
    ELSE IF Compare(x, Head(sorted)) < 0 THEN <<x>> \o sorted
    ELSE <<Head(sorted)>> \o InsertSorted(x, Tail(sorted))

RECURSIVE SortTips(_)
SortTips(s) ==
    IF s = <<>> THEN <<>>
    ELSE InsertSorted(s[Len(s)], SortTips(SubSeq(s, 1, Len(s) - 1)))

(***************************************************************************)
(* extractQueryKeywords and the keyword pin.                                *)
(***************************************************************************)
StopWords == {"the", "and", "for", "with", "that", "this", "your", "about",
              "from", "into", "over", "under", "when", "what", "kids",
              "child", "children", "parenting"}

\* replace(/[^a-z0-9\s-]/g, ' ') on one word of the lower-cased text.
KeywordToken(w) == IF w = ContextMarker THEN "context" ELSE w

RECURSIVE Unique(_)
Unique(s) ==
    IF s = <<>> THEN <<>>
    ELSE LET rest == Unique(SubSeq(s, 1, Len(s) - 1))
             x    == s[Len(s)]
         IN  IF \E i \in 1..Len(rest) : rest[i] = x THEN rest
             ELSE Append(rest, x)

\* Keywords are word sequences: one word, or two for a bigram.
extractQueryKeywords(q) ==
    LET tokens  == [i \in 1..Len(q) |-> KeywordToken(q[i])]
        words   == SelectSeq(tokens,
                             LAMBDA w : Len(w) > 2 /\ w \notin StopWords)
        uniq    == Take(Unique(words), 6)
        bigrams == [i \in 1..(Len(words) - 1) |-> <<words[i], words[i + 1]>>]
    IN  [i \in 1..Len(uniq) |-> <<uniq[i]>>] \o Take(Unique(bigrams), 4)

\* Keywords that occur inside a longer word of a tip text.
SubstringPairs == {<<"question", "questions">>, <<"game", "games">>}

\* blob.includes(k): a one-word keyword matches a word that contains it,
\* a bigram matches two adjacent words.
BlobIncludes(blob, k) ==
    IF Len(k) = 1
    THEN \E i \in 1..Len(blob) :
            blob[i] = k[1] \/ <<k[1], blob[i]>> \in SubstringPairs
    ELSE Includes(blob, k)

\* `${tip.title} ${tip.body} ${tip.details}`.toLowerCase()
Blob(tip) == tip.title \o tip.body \o tip.details

HasPinned(keywords, tip) ==
    keywords = <<>> \/ \E i \in 1..Len(keywords) :
                          BlobIncludes(Blob(tip), keywords[i])

(***************************************************************************)
(* The three scorers.  Each returns the tips it surfaces, a tip being its  *)
(* id, its title and body (text) and the three rounded scores.             *)
(***************************************************************************)
Flag(b) == IF b THEN "true" ELSE "false"

RECURSIVE Ascending(_)
Ascending(S) ==
    IF S = {} THEN <<>>
    ELSE LET m == CHOOSE x \in S : \A y \in S : x <= y
         IN  <<m>> \o Ascending(S \ {m})

\* The user's stored preference vector, None without a profile row.
UserPreference(u) ==
    IF user_preference_profiles[u] = None THEN None
    ELSE user_preference_profiles[u].preference_embedding

\* getContextualPersonalizedTips, given the embedding of the query.
getContextualPersonalizedTips(userId, query, queryEmbedding, limit) ==
    LET userPreference  == UserPreference(userId)
        cleanQuery      == SliceChars(CleanQuery(query), CleanQueryMaxChars)
        dislikeCentroid == DislikeCentroid(userId)
        excludeIds == {t \in tips :
                         \E ty \in {"like", "dislike"} :
                            <<userId, t, ty>> \in user_tip_interactions}
        tipEmbeddings ==
            Take(Ascending((DOMAIN tip_embeddings \cap tips) \ excludeIds),
                 IF limit * 3 < 30 THEN limit * 3 ELSE 30)
        Scored(t) ==
            LET tipEmb   == tip_embeddings[t]
                qSim     == cosineSimilarity(queryEmbedding, tipEmb)
                personal == IF userPreference # None
                            THEN cosineSimilarity(userPreference, tipEmb)
                            ELSE DefaultPersonal
                dSim     == IF dislikeCentroid # None
                            THEN cosineSimilarity(dislikeCentroid, tipEmb)
                            ELSE 0
            IN  [id               |-> <<"tip", t>>,
                 text             |-> CatalogText(t),
                 details          |->
                     (IF userPreference # None THEN <<"personalized">>
                      ELSE <<>>)
                     \o <<CatalogType(t), "tip", "for">> \o cleanQuery,
                 query_relevance  |-> Round3(qSim),
                 personal_match   |-> Round3(personal),
                 similarity_score |-> Round3(Blend(qSim, personal, dSim)),
                 is_strong_match  |-> Flag(qSim >= STRONG_QUERY_SIM)]
        kept == SelectSeq(tipEmbeddings,
                   LAMBDA t : ~OffTopic(cosineSimilarity(queryEmbedding,
                                                         tip_embeddings[t])))
        recommendations == [i \in 1..Len(kept) |-> Scored(kept[i])]
    IN  [tips           |-> Take(SortTips(recommendations), limit),
         isPersonalized |-> userPreference # None]

\* What generateTipsWithAI can return for a query: the clean tips of a
\* provider answer, or the fallback tips.
GenReturns(query, count) ==
    {CleanTips(items, query) :
        items \in {s \in SeqsUpTo(RawTips, MaxItems) : Len(s) >= 1}}
    \cup {generateFallbackTips(query, count)}

\* Embeddings the provider returns for tip texts and for queries.
TipVectors == {<<24, 7>>, <<7, 24>>}
QueryVectors == {<<25, 0>>, <<24, 7>>}

\* generatePersonalizedTipsForQuery from the scoring loop on, given the
\* query embedding, what generateTipsWithAI returned and the embeddings of
\* the returned tips.
generatePersonalizedTipsForQuery(userId, query, queryEmbedding, limit, generatedTips, tipVectors) ==
    LET queryKeywords   == extractQueryKeywords(query)
        userPreference  == UserPreference(userId)
        dislikeCentroid == DislikeCentroid(userId)
        Scored(i) ==
            LET tipEmbedding == tipVectors[i]
                qSim == cosineSimilarity(queryEmbedding, tipEmbedding)
                personalizedScore ==
                    IF userPreference # None
                    THEN cosineSimilarity(userPreference, tipEmbedding)
                    ELSE DefaultPersonal
                dSim == IF dislikeCentroid # None
                        THEN cosineSimilarity(dislikeCentroid, tipEmbedding)
                        ELSE 0
            IN  [id               |-> generatedTips[i].id,
                 text             |-> generatedTips[i].title
                                      \o generatedTips[i].body,
                 details          |-> generatedTips[i].details,
                 query_relevance  |-> Round3(qSim),
                 personal_match   |-> Round3(personalizedScore),
                 similarity_score |->
                     Round3(Blend(qSim, personalizedScore, dSim)),
                 is_strong_match  |-> Flag(qSim >= STRONG_QUERY_SIM)]
        indices == [i \in 1..Len(generatedTips) |-> i]
        kept == SelectSeq(indices,
                   LAMBDA i :
                      /\ ~OffTopic(cosineSimilarity(queryEmbedding,
                                                    tipVectors[i]))
                      /\ HasPinned(queryKeywords, generatedTips[i]))
        scoredTips == [j \in 1..Len(kept) |-> Scored(kept[j])]
    IN  [tips           |-> Take(SortTips(scoredTips), limit),
         isPersonalized |-> userPreference # None]

\* A line of the NDJSON stream turned into a tip by generateTipsStreamNDJSON.
StreamTip(obj, counter) ==
    [id         |-> <<"generated", counter>>,
     title      |-> sanitizeTipText(obj.title),
     body       |-> sanitizeTipText(Flatten(Take(obj.body, 2))),
     details    |-> sanitizeTipText(Flatten(Take(obj.details, 1))),
     categories |-> <<"generated">>]

\* scoreSingleGeneratedTip: None (null) or the scored tip.
scoreSingleGeneratedTip(userId, query, tip, queryEmbedding, tipEmbedding) ==
    LET userPreference  == UserPreference(userId)
        dislikeCentroid == DislikeCentroid(userId)
        qSim     == cosine(queryEmbedding, tipEmbedding)
        pins     == extractQueryKeywords(query)
        personal == IF userPreference # None
                    THEN cosine(userPreference, tipEmbedding)
                    ELSE DefaultPersonal
        dSim     == IF dislikeCentroid # None
                    THEN cosine(dislikeCentroid, tipEmbedding)
                    ELSE 0
    IN  IF OffTopic(qSim) THEN None
        ELSE IF ~HasPinned(pins, tip) THEN None
        ELSE [id               |-> tip.id,
              text             |-> tip.title \o tip.body,
              details          |-> tip.details,
              query_relevance  |-> Round3(qSim),
              personal_match   |-> Round3(personal),
              similarity_score |-> Round3(Blend(qSim, personal, dSim)),
              is_strong_match  |-> "absent"]

(***************************************************************************)
(* The guardrail.  A prompt is a set of phrases written in a fixed order;  *)
(* Signals(p) names the tests of the classifiers that phrase p makes true. *)
(***************************************************************************)
MaxPhrases == 2

Lexicon == <<"kill", "stocks", "7 year old", "toddler", "tantrum",
             "vocabulary", "suicide">>

Signals(p) ==
    CASE p = "kill"       -> {"DANGEROUS_PATTERNS", "DANGEROUS_PATTERNS[0]",
                              "VIOLENCE_WEAPONS", "OUT_OF_SCOPE_TOPICS[0]"}
      [] p = "suicide"    -> {"DANGEROUS_PATTERNS", "DANGEROUS_PATTERNS[1]",
                              "OUT_OF_SCOPE_TOPICS[0]"}
      [] p = "stocks"     -> {"FINANCE", "MEDICAL_LEGAL"}
      [] p = "7 year old" -> {"age > 5", "AGE_PATTERNS"}
      [] p = "toddler"    -> {"guardrail CHILD_TERMS", "route CHILD_TERMS"}
      [] p = "tantrum"    -> {"PARENTING_TOPICS", "OUT_OF_SCOPE_TOPICS[3]"}
      [] p = "vocabulary" -> {"PARENTING_TOPICS", "Language keyword",
                              "Language pattern"}
      [] OTHER            -> {}

PhraseWords(p) == IF p = "7 year old" THEN <<"7", "year", "old">> ELSE <<p>>

\* Characters of a phrase other than white space.
PhraseChars(p) == IF p = "7 year old" THEN 8 ELSE Len(p)

Prompts ==
    {S \in SUBSET (1..Len(Lexicon)) : S # {} /\ Cardinality(S) <= MaxPhrases}

PromptWords(S) ==
    Flatten([i \in 1..Len(Lexicon) |->
                IF i \in S THEN PhraseWords(Lexicon[i]) ELSE <<>>])

PromptSignals(S) == UNION {Signals(Lexicon[i]) : i \in S}

RECURSIVE SumChars(_)
SumChars(S) ==
    IF S = {} THEN 0
    ELSE LET i == CHOOSE x \in S : TRUE
         IN  PhraseChars(Lexicon[i]) + SumChars(S \ {i})

\* looksBase64: at least 12 characters of the base64 alphabet, their
\* number divisible by 4.
looksBase64(S) == SumChars(S) >= 12 /\ SumChars(S) % 4 = 0

\* classifyParentingQuery on a text whose tests are the set sig.
ClassifyText(sig) ==
    LET hasTopic   == "PARENTING_TOPICS" \in sig
        isParenting ==
            \/ "guardrail CHILD_TERMS" \in sig /\ hasTopic
            \/ "generic parent word" \in sig /\ hasTopic
            \/ hasTopic /\ "age 0-5" \in sig
    IN
    IF "age > 5" \in sig THEN "age_out_of_scope"
    ELSE IF "DANGEROUS_PATTERNS" \in sig THEN "illegal_activity"
    ELSE IF "SEXUAL" \in sig /\ "ALLOWLIST_SENSITIVE_PARENTING" \notin sig
    THEN "adult_content"
    ELSE IF "ADULT_REL" \in sig /\ "ALLOWLIST_SENSITIVE_PARENTING" \notin sig
    THEN "adult_relationships"
    ELSE IF "PROFANITY_HARASSMENT_HATE" \in sig THEN "harassment_hate"
    ELSE IF "VIOLENCE_WEAPONS" \in sig THEN "violence_illegal"
    ELSE IF "DRUGS" \in sig THEN "drugs_alcohol"
    ELSE IF "FINANCE" \in sig THEN "finance_investing"
    ELSE IF "POLITICS" \in sig THEN "politics"
    ELSE IF "GAMBLING" \in sig THEN "gambling"
    ELSE IF "CAREER" \in sig THEN "career_jobs"
    ELSE IF "ILLEGAL" \in sig THEN "illegal_activity"
    ELSE IF "SOFTWARE_IT" \in sig THEN "software_it"
    ELSE IF "MEDICAL_LEGAL" \in sig THEN "medical_legal"
    ELSE IF /\ "HYPOTHETICAL_FRAMING" \in sig
            /\ ~("guardrail CHILD_TERMS" \in sig /\ hasTopic)
    THEN "non_parenting"
    ELSE IF ~isParenting THEN "non_parenting"
    ELSE "ok"

\* classifyParentingQuery: a prompt that looks like base64 is decoded and
\* the decoded bytes, which make no test true, are classified first.
classifyParentingQuery(S) ==
    IF looksBase64(S) /\ ClassifyText({}) # "ok" THEN ClassifyText({})
    ELSE ClassifyText(PromptSignals(S))

validateParentingQuery(S) ==
    LET category == classifyParentingQuery(S) IN
    [isValid |-> category = "ok", type |-> category, reason |-> "undefined"]

\* isStrictlyInScope: the result has a `reason` and no `type`.
isStrictlyInScope(S) ==
    LET sig == PromptSignals(S)
        languageMatches ==
            (IF "Language keyword" \in sig THEN 1 ELSE 0)
            + (IF "Language pattern" \in sig THEN 2 ELSE 0)
        reason ==
            IF "OUT_OF_SCOPE_TOPICS[0]" \in sig THEN "harmful_content"
            ELSE IF "OUT_OF_SCOPE_TOPICS[3]" \in sig THEN "out_of_scope"
            ELSE IF languageMatches < 2 THEN "unclear_domain"
            ELSE "ok"
    IN  [isValid |-> reason = "ok", type |-> "undefined", reason |-> reason]

looksLikeParentingPrompt(S) ==
    \/ "route CHILD_TERMS" \in PromptSignals(S)
    \/ "AGE_PATTERNS" \in PromptSignals(S)

\* The note each call site hands to reframeAsParenting, lower-cased.
Note(strictly) ==
    <<"this", "question", "is", "about", "my", "child">>
    \o (IF strictly THEN <<"strictly">> ELSE <<>>)
    \o <<"provide", "age-appropriate", "safe", "practical", "parenting",
         "strategies">>

reframeAsParenting(prompt, note) == prompt \o <<ContextMarker>> \o note

\* CATEGORY_RESPONSES[category].msg, with the fallback of categoryReply.
CrisisMessage == "if you're thinking about self-harm, you're not alone"
GenericMessage == "we only provide parenting tips"
AgeMessage == "this app is for ages 0-5"

CategoryMessage(category) ==
    IF category = "self_harm" THEN CrisisMessage
    ELSE IF category = "age_out_of_scope" THEN AgeMessage
    ELSE IF category = "ok" THEN "ok"
    ELSE GenericMessage

\* categoryReply: CATEGORY_RESPONSES[category] || CATEGORY_RESPONSES.non_parenting
\* has http 400 for every category but "ok".
categoryReply(category) ==
    [status  |-> IF category = "ok" THEN 200 ELSE 400,
     error   |-> category,
     message |-> CategoryMessage(category),
     source  |-> "refusal",
     tips    |-> <<>>]

(***************************************************************************)
(* Tip requests of the existing user.  A handler runs as one step: it only *)
(* reads the tables, and its provider calls are recorded in `calls`:       *)
(*   "embed"    - a call of the embedding provider                         *)
(*   "retrieve" - getContextualPersonalizedTips searching the tips table   *)
(*   "generate" - a call of the text-generation provider                   *)
(* The embedding of a query is cached by its text (generateQueryEmbedding),*)
(* so a request embeds the same prompt once.                               *)
(***************************************************************************)
Modes == {"generate", "database", "hybrid"}

(***************************************************************************)
(* Survey answers.  A row of user_survey_responses holds the three lists   *)
(* the handlers read.                                                      *)
(***************************************************************************)
SurveyRow == [content_preferences |-> <<"activities">>,
              challenge_areas     |-> <<>>,
              parenting_goals     |-> <<>>]

Surveys == {None, SurveyRow}

\* buildSurveyContext, lower-cased and split into words.
buildSurveyContext(survey) ==
    (IF survey.content_preferences # <<>>
     THEN <<"user", "prefers">> \o survey.content_preferences
          \o <<"type", "content">>
     ELSE <<>>)
    \o (IF survey.challenge_areas # <<>>
        THEN <<"current", "challenges", "include">> \o survey.challenge_areas
        ELSE <<>>)
    \o (IF survey.parenting_goals # <<>>
        THEN <<"parenting", "goals">> \o survey.parenting_goals
        ELSE <<>>)

\* `${effectivePrompt}\n\nUser Context: ${surveyContext}`
EnhancedPrompt(effectivePrompt, survey) ==
    IF survey # None /\ buildSurveyContext(survey) # <<>>
    THEN effectivePrompt \o <<"user", "context">>
         \o buildSurveyContext(survey)
    ELSE effectivePrompt

\* getKeywordsForPreference / -Challenge / -Goal with the weight of each
\* list in 1/10000.
KeywordsFor(item) ==
    CASE item = "activities" -> {"activity", "play", "game", "fun", "creative"}
      [] item = "tantrums"   -> {"tantrum", "meltdown", "crying", "upset"}
      [] item = "patience"   -> {"patience", "calm", "gentle"}
      [] OTHER               -> {}

ContentWeight   == 500
ChallengeWeight == 800
GoalWeight      == 600

\* Number of keywords of the items of a list that occur in a text.
RECURSIVE Matches(_, _)
Matches(list, tipText) ==
    IF list = <<>> THEN 0
    ELSE Cardinality({k \in KeywordsFor(Head(list)) :
                        BlobIncludes(tipText, <<k>>)})
         + Matches(Tail(list), tipText)

RECURSIVE InsertByScore(_, _)
InsertByScore(x, sorted) ==
    IF sorted = <<>> THEN <<x>>
    ELSE IF Head(sorted).similarity_score < x.similarity_score
    THEN <<x>> \o sorted
    ELSE <<Head(sorted)>> \o InsertByScore(x, Tail(sorted))

\* .sort((a, b) => b.similarity_score - a.similarity_score), stable.
RECURSIVE SortByScore(_)
SortByScore(s) ==
    IF s = <<>> THEN <<>>
    ELSE InsertByScore(s[Len(s)], SortByScore(SubSeq(s, 1, Len(s) - 1)))

\* applySurveyScoring: each tip gets its boost, capped at 1.0, and the list
\* is sorted again by the boosted score alone.
applySurveyScoring(tipList, survey) ==
    LET Boosted(tip) ==
            LET tipText == tip.text \o tip.details
                boost == ContentWeight
                           * Matches(survey.content_preferences, tipText)
                         + ChallengeWeight
                           * Matches(survey.challenge_areas, tipText)
                         + GoalWeight
                           * Matches(survey.parenting_goals, tipText)
                newScore == IF tip.similarity_score + boost > 10000
                            THEN 10000
                            ELSE tip.similarity_score + boost
            IN  [tip EXCEPT !.similarity_score = Round3(newScore)]
    IN  IF survey = None THEN tipList
        ELSE SortByScore([i \in 1..Len(tipList) |-> Boosted(tipList[i])])

\* The authenticated user of the request: the one with a row in `users`.
Caller == CHOOSE u \in users : TRUE

\* Math.min(limit * 2, 6) for the limits 3 and 5 the handlers pass.
GenerationCount == 6

\* What the generation provider and the embedding of its tips can give.
GenerationInputs(query) ==
    UNION {{[tips |-> g, vectors |-> v] : v \in [1..Len(g) -> TipVectors]} :
              g \in GenReturns(query, GenerationCount)}

\* What the NDJSON stream and the embedding of its tips can give.
StreamInputs ==
    UNION {{[lines |-> l, vectors |-> v] : v \in [1..Len(l) -> TipVectors]} :
              l \in SeqsUpTo(RawTips, MaxItems)}

Reply(source, tipList) ==
    [status |-> 200, error |-> "none", source |-> source, tips |-> tipList]

\* analyzeUserPreferences inside generatePersonalizedTipsForQuery stores
\* the context it computes when the user has a profile and no cached entry.
CacheAfterGeneration ==
    IF UserPreference(Caller) # None /\ userPreferenceCache[Caller] = None
    THEN [userPreferenceCache EXCEPT
             ![Caller] = PreferenceContext(LikedTips(Caller))]
    ELSE userPreferenceCache

Finish(req, log, resp, generated) ==
    /\ request' = req
    /\ calls' = log
    /\ response' = resp
    /\ userPreferenceCache' =
          IF generated THEN CacheAfterGeneration ELSE userPreferenceCache
    /\ UNCHANGED <<dbVars, rec, reader, started, reads, overlapped>>
    /\ UNCHANGED <<genVars, user_survey_responses, survey_profile, wsVars,
                   persistVars>>

\* A guard that refuses nothing.
Refused_Never(v, looks) == FALSE

\* The guard of a call site: a prompt the classifier rejects is refused
\* unless the child/age heuristic matches it.
Refused(v, looks) == ~v.isValid /\ ~looks

\* The request with what its guard decided.
Guarded(site, mode, S, v, reframed) ==
    [site |-> site, mode |-> mode, prompt |-> S, valid |-> v.isValid,
     category |-> IF v.type # "undefined" THEN v.type ELSE v.reason,
     reframed |-> reframed]

\* POST /enhanced-tips
EnhancedTips(mode, S, queryEmbedding) ==
    LET v     == validateParentingQuery(S)
        looks == looksLikeParentingPrompt(S)
        effectivePrompt ==
            IF ~v.isValid /\ looks
            THEN reframeAsParenting(PromptWords(S), Note(FALSE))
            ELSE PromptWords(S)
        req == Guarded("/enhanced-tips", mode, S, v, ~v.isValid /\ looks)
        db  == getContextualPersonalizedTips(Caller, effectivePrompt,
                                             queryEmbedding, 3)
    IN
    /\ request = None
    /\ IF Refused(v, looks)
       THEN Finish(req, <<>>, categoryReply(v.type), FALSE)
       ELSE IF mode = "generate"
       THEN \E g \in GenerationInputs(effectivePrompt) :
               LET result == generatePersonalizedTipsForQuery(
                                Caller, effectivePrompt, queryEmbedding, 5,
                                g.tips, g.vectors)
               IN  Finish(req, <<"embed", "generate", "embed">>,
                          Reply("ai_generated", result.tips), TRUE)
       ELSE IF mode = "database"
       THEN Finish(req, <<"embed", "retrieve">>,
                   IF db.tips # <<>> THEN Reply("database_search", db.tips)
                   ELSE Reply("no_results", <<>>), FALSE)
       ELSE IF db.tips # <<>>
       THEN Finish(req, <<"embed", "retrieve">>,
                   Reply("database_found", db.tips), FALSE)
       ELSE \E g \in GenerationInputs(effectivePrompt) :
               LET result == generatePersonalizedTipsForQuery(
                                Caller, effectivePrompt, queryEmbedding, 3,
                                g.tips, g.vectors)
               IN  Finish(req, <<"embed", "retrieve", "generate", "embed">>,
                          IF result.tips # <<>>
                          THEN Reply("ai_generated_fallback", result.tips)
                          ELSE Reply("no_results", <<>>), TRUE)

\* POST /enhanced-tips-survey
EnhancedTipsSurvey(mode, S, queryEmbedding) ==
    LET v     == isStrictlyInScope(S)
        looks == looksLikeParentingPrompt(S)
        harmful  == ~v.isValid /\ v.reason = "harmful_content"
        reframed == ~v.isValid /\ ~harmful /\ looks
        effectivePrompt ==
            IF reframed THEN reframeAsParenting(PromptWords(S), Note(TRUE))
            ELSE PromptWords(S)
        req == Guarded("/enhanced-tips-survey", mode, S, v, reframed)
        survey == user_survey_responses[Caller]
        enhancedPrompt == EnhancedPrompt(effectivePrompt, survey)
        db  == getContextualPersonalizedTips(Caller, effectivePrompt,
                                             queryEmbedding, 5)
    IN
    /\ request = None
    /\ IF harmful
       THEN Finish(req, <<>>, categoryReply(v.reason), FALSE)
       ELSE IF Refused(v, looks)
       THEN Finish(req, <<>>, categoryReply(v.type), FALSE)
       ELSE IF mode \in {"hybrid", "database"} /\ db.tips # <<>>
       THEN Finish(req, <<"embed", "retrieve">>,
                   Reply("database_search_with_survey", db.tips), FALSE)
       ELSE IF mode = "database"
       THEN Finish(req, <<"embed", "retrieve">>,
                   Reply("no_results", <<>>), FALSE)
       ELSE \E g \in GenerationInputs(enhancedPrompt) :
               LET scored == generatePersonalizedTipsForQuery(
                                Caller, enhancedPrompt, queryEmbedding, 5,
                                g.tips, g.vectors)
                   result == [tips |-> applySurveyScoring(scored.tips,
                                                          survey)]
                   log == IF mode = "hybrid"
                          THEN <<"embed", "retrieve", "generate", "embed">>
                          ELSE <<"embed", "generate", "embed">>
               IN  Finish(req, log,
                          IF result.tips # <<>>
                          THEN Reply(IF mode = "hybrid"
                                     THEN "ai_fallback_with_survey"
                                     ELSE "ai_generated_with_survey",
                                     result.tips)
                          ELSE Reply("no_results", <<>>), TRUE)

\* POST /enhanced-tips-survey as the second router of the file defines it.
EnhancedTipsSurveyLegacy(mode, S, queryEmbedding) ==
    LET v     == validateParentingQuery(S)
        looks == looksLikeParentingPrompt(S)
        effectivePrompt ==
            IF ~v.isValid /\ looks
            THEN reframeAsParenting(PromptWords(S), Note(FALSE))
            ELSE PromptWords(S)
        req == Guarded("/enhanced-tips-survey (legacy)", mode, S, v,
                       ~v.isValid /\ looks)
        survey == user_survey_responses[Caller]
        enhancedPrompt == EnhancedPrompt(effectivePrompt, survey)
        db  == getContextualPersonalizedTips(Caller, effectivePrompt,
                                             queryEmbedding, 5)
        dbReply == IF db.tips # <<>>
                   THEN Reply("database_search_with_survey", db.tips)
                   ELSE Reply("no_results", <<>>)
    IN
    /\ request = None
    /\ IF Refused(v, looks)
       THEN Finish(req, <<>>, categoryReply(v.type), FALSE)
       ELSE IF mode = "database"
       THEN Finish(req, <<"embed", "retrieve">>, dbReply, FALSE)
       ELSE \E g \in GenerationInputs(enhancedPrompt) :
               LET scored == generatePersonalizedTipsForQuery(
                                Caller, enhancedPrompt, queryEmbedding, 5,
                                g.tips, g.vectors)
                   result == [tips |-> applySurveyScoring(scored.tips,
                                                          survey)]
               IN  IF result.tips # <<>>
                   THEN Finish(req, <<"embed", "generate", "embed">>,
                               Reply("ai_generated_with_survey", result.tips),
                               TRUE)
                   ELSE IF mode = "hybrid"
                   THEN Finish(req, <<"embed", "generate", "embed",
                                      "retrieve">>, dbReply, TRUE)
                   ELSE Finish(req, <<"embed", "generate", "embed">>,
                               Reply("no_results", <<>>), TRUE)

\* The tips scoreSingleGeneratedTip lets through, in stream order.
RECURSIVE Emitted(_, _, _, _)
Emitted(query, queryEmbedding, lines, vectors) ==
    IF lines = <<>> THEN <<>>
    ELSE LET n      == Len(lines)
             before == Emitted(query, queryEmbedding,
                               SubSeq(lines, 1, n - 1),
                               SubSeq(vectors, 1, n - 1))
             scored == scoreSingleGeneratedTip(
                          Caller, query, StreamTip(lines[n], n - 1),
                          queryEmbedding, vectors[n])
         IN  IF scored = None THEN before ELSE Append(before, scored)

\* scoreSingleGeneratedTip embeds the query and the tip for every line.
RECURSIVE ScoringCalls(_)
ScoringCalls(n) ==
    IF n = 0 THEN <<>> ELSE <<"embed", "embed">> \o ScoringCalls(n - 1)

\* The streaming connection after its `start` message: what is sent is
\* summed up as one reply holding the streamed tips and then the batch.
WsStart(mode, S, queryEmbedding) ==
    LET v     == isStrictlyInScope(S)
        looks == looksLikeParentingPrompt(S)
        effectivePrompt ==
            IF ~v.isValid /\ looks
            THEN reframeAsParenting(PromptWords(S), Note(TRUE))
            ELSE PromptWords(S)
        req == Guarded("ws", mode, S, v, ~v.isValid /\ looks)
        db  == getContextualPersonalizedTips(Caller, effectivePrompt,
                                             queryEmbedding, 5)
    IN
    /\ request = None
    /\ IF Refused(v, looks)
       THEN Finish(req, <<>>, categoryReply(v.type), FALSE)
       ELSE IF mode = "database"
       THEN Finish(req, <<"embed", "retrieve">>,
                   Reply(IF db.tips # <<>> THEN "database" ELSE "done",
                         db.tips), FALSE)
       ELSE \E g \in StreamInputs :
               LET ai  == Emitted(effectivePrompt, queryEmbedding,
                                  g.lines, g.vectors)
                   log == <<"generate">> \o ScoringCalls(Len(g.lines))
               IN  IF ai = <<>> /\ mode = "hybrid"
                   THEN Finish(req, log \o <<"embed", "retrieve">>,
                               Reply(IF db.tips # <<>> THEN "database"
                                     ELSE "done", db.tips), FALSE)
                   ELSE Finish(req, log,
                               Reply(IF ai # <<>> THEN "ai" ELSE "done", ai),
                               FALSE)

(***************************************************************************)
(* Spec: one tip request against a store holding the likes and dislikes    *)
(* of the caller and the profile computed from them.                       *)
(***************************************************************************)
Init ==
    /\ GenIdle
    /\ PipeIdle
    /\ \E survey \in Surveys :
          user_survey_responses =
             [u \in UserIds |-> IF u = Caller THEN survey ELSE None]
    /\ tips = CatalogTips
    /\ tip_embeddings = [t \in CatalogTips |-> CatalogEmbedding(t)]
    /\ \E opinion \in [CatalogTips -> {"none", "like", "dislike"}] :
          LET L == {t \in CatalogTips : opinion[t] = "like"}
              D == {t \in CatalogTips : opinion[t] = "dislike"}
          IN  /\ user_tip_interactions =
                    {<<Caller, t, opinion[t]>> : t \in L \cup D}
              /\ user_preference_profiles =
                    [u \in UserIds |->
                        IF u = Caller /\ L \cup D # {}
                        THEN ProfileRow(tip_embeddings, L, D) ELSE None]
    /\ userPreferenceCache = [u \in UserIds |-> None]
    /\ rec = [p \in Procs |-> IdleRec]
    /\ reader = IdleReader
    /\ started = 0
    /\ reads = 0
    /\ overlapped = FALSE

Next ==
    \/ \E m \in Modes, S \in Prompts, e \in QueryVectors :
          EnhancedTips(m, S, e)
    \/ \E m \in Modes, S \in Prompts, e \in QueryVectors :
          EnhancedTipsSurvey(m, S, e)
    \/ \E m \in Modes, S \in Prompts, e \in QueryVectors :
          EnhancedTipsSurveyLegacy(m, S, e)
    \/ \E m \in Modes, S \in Prompts, e \in QueryVectors :
          WsStart(m, S, e)

Spec == Init /\ [][Next]_vars

(***************************************************************************)
(* Claims about tip requests                                               *)
(***************************************************************************)
Answered == request # None /\ response # None

\* C1: every tip surfaced to a caller, by retrieval, by batch generation
\* (fallback tips included) or by stream scoring, carries a numeric query
\* similarity of at least MIN_QUERY_SIM.
C1_SurfacedTipsOnTopic ==
    Answered =>
       \A i \in 1..Len(response.tips) :
          /\ response.tips[i].query_relevance # NaN
          /\ response.tips[i].query_relevance >= MIN_QUERY_SIM

\* Retrieval had two candidate rows, dropped one and surfaced the other.
C1_Witness ==
    /\ Answered
    /\ user_tip_interactions = {}
    /\ response.source = "database_found"
    /\ Len(response.tips) = 1
    /\ response.tips[1].query_relevance >= MIN_QUERY_SIM

NotReframedBySite ==
    \/ ~looksLikeParentingPrompt(request.prompt)
    \/ /\ request.site = "/enhanced-tips-survey"
       /\ request.category = "harmful_content"

C3_ReframeOnlyNonParenting ==
    (Answered /\ ~request.valid /\ request.category # "non_parenting") =>
       /\ ~request.reframed
       /\ response.source = "refusal"
       /\ calls = <<>>

DatabaseSources == {"database_search", "database_found",
                    "database_search_with_survey", "database"}

\* C8: in hybrid mode a generation call comes only after retrieval was
\* tried, and a request answered from the database made no generation call.
C8_RetrievalBeforeGeneration ==
    (Answered /\ request.mode = "hybrid") =>
       /\ \A i \in 1..Len(calls) :
             calls[i] = "generate" =>
                \E j \in 1..(i - 1) : calls[j] = "retrieve"
       /\ response.source \in DatabaseSources =>
             \A i \in 1..Len(calls) : calls[i] # "generate"

\* The query a request hands to retrieval, generation and scoring: the
\* prompt, with the reframing note of its call site when it was reframed.
EffectivePrompt(req) ==
    IF req.reframed
    THEN reframeAsParenting(PromptWords(req.prompt),
                            Note(req.site \in {"/enhanced-tips-survey", "ws"}))
    ELSE PromptWords(req.prompt)

\* The title+body text of a surfaced tip contains one of the pins.
PinnedInTitleBody(pins, tip) ==
    \E k \in 1..Len(pins) : BlobIncludes(tip.text, pins[k])

\* C12: whenever the keyword pins extracted from the query are non-empty,
\* every tip returned by retrieval, batch generation or streaming scoring
\* contains at least one pin in its title+body text.
C12_ReturnedTipsPinned ==
    Answered =>
       LET pins == extractQueryKeywords(EffectivePrompt(request))
       IN  pins # <<>> =>
              \A i \in 1..Len(response.tips) :
                 PinnedInTitleBody(pins, response.tips[i])

\* A surfaced tip is a strong match: its query similarity reaches
\* STRONG_QUERY_SIM.
Strong(tip) == tip.query_relevance >= STRONG_QUERY_SIM

\* Tip a may be delivered before tip b.
RankedBefore(a, b) ==
    \/ Strong(a) /\ ~Strong(b)
    \/ /\ Strong(a) = Strong(b)
       /\ a.query_relevance > b.query_relevance
    \/ /\ Strong(a) = Strong(b)
       /\ a.query_relevance = b.query_relevance
       /\ a.similarity_score >= b.similarity_score

\* C13: in every list or stream of tips surfaced for one query, any tip
\* delivered before another is ranked before it: strong matches first,
\* then descending query similarity, then descending combined score; also
\* after survey boosting and on the streaming connection.
C13_SurfacedInRankOrder ==
    Answered =>
       \A i, j \in 1..Len(response.tips) :
          i < j => RankedBefore(response.tips[i], response.tips[j])

(***************************************************************************)
(* The streaming connection step by step.  The provider's output is a      *)
(* sequence of tokens: pieces of a line and the line feed.  A chunk is any *)
(* number of consecutive tokens.                                           *)
(***************************************************************************)
MaxLines == 2        \* lines in one provider output

NL == "\\n"

\* null as JSON.parse returns it.
Null == [null |-> TRUE]

\* What the provider can write on one line: the object of tip A or B, an
\* object cut short, nothing, or the literal null.
LineKinds == {"A", "B", "cut", "blank", "null"}

LineTokens(kind) ==
    CASE kind = "A"    -> <<"{A", "A}">>
      [] kind = "B"    -> <<"{B", "B}">>
      [] kind = "cut"  -> <<"{A">>
      [] kind = "null" -> <<"null">>
      [] OTHER         -> <<>>

RECURSIVE Serialize(_)
Serialize(lines) ==
    IF lines = <<>> THEN <<>>
    ELSE LineTokens(Head(lines)) \o <<NL>> \o Serialize(Tail(lines))

\* Every line ends with a line feed, or the last one is left unterminated.
ProviderOutputs ==
    LET whole == {Serialize(l) : l \in SeqsUpTo(LineKinds, MaxLines)}
    IN  whole \cup {SubSeq(o, 1, Len(o) - 1) : o \in whole \ {<<>>}}

\* JSON.parse(line)
ParseLine(line) ==
    IF line = <<"{A", "A}">> THEN [ok |-> TRUE, value |-> RawTipA]
    ELSE IF line = <<"{B", "B}">> THEN [ok |-> TRUE, value |-> RawTipB]
    ELSE IF line = <<"null">> THEN [ok |-> TRUE, value |-> Null]
    ELSE [ok |-> FALSE, value |-> None]

\* buf.indexOf('\n'), counted from 1; 0 stands for -1.
IndexOf(buf, x) ==
    IF \E i \in 1..Len(buf) : buf[i] = x
    THEN CHOOSE i \in 1..Len(buf) :
            buf[i] = x /\ \A j \in 1..(i - 1) : buf[j] # x
    ELSE 0

\* The while loop of generateTipsStreamNDJSON run from a buffer until it
\* suspends: at `await onTip` with the object of a line (at = "tip"), at
\* the next chunk when no line feed is left (at = "chunk"), or never again
\* because reading a member of null threw (at = "throw").  `lines` counts
\* the lines taken from the buffer.
RECURSIVE ProcessLines(_, _)
ProcessLines(buf, n) ==
    LET idx    == IndexOf(buf, NL)
        line   == SubSeq(buf, 1, idx - 1)
        rest   == SubSeq(buf, idx + 1, Len(buf))
        parsed == ParseLine(line)
    IN  IF idx = 0
        THEN [at |-> "chunk", buf |-> buf, lines |-> n, value |-> None]
        ELSE IF line = <<>> \/ ~parsed.ok
        THEN ProcessLines(rest, n + 1)
        ELSE IF parsed.value = Null
        THEN [at |-> "throw", buf |-> rest, lines |-> n + 1, value |-> None]
        ELSE [at |-> "tip", buf |-> rest, lines |-> n + 1,
              value |-> parsed.value]

Msg(type, data) == [type |-> type, data |-> data]

\* sendJSON: the message goes out only while the socket is open.
sendJSON(c, msg) ==
    IF c.readyState = "OPEN" THEN [c EXCEPT !.sent = Append(@, msg)] ELSE c

\* ws.close() by the server.
Closed(c) == [c EXCEPT !.readyState = "CLOSED", !.pc = "closed"]

\* A verifier that accepts every handshake.
Verified_Any(token) == TRUE

\* jwt.verify succeeds on the token of the query string.
Verified(token) == token = "valid"

Tokens == {"missing", "invalid", "valid"}

WsFrame ==
    /\ UNCHANGED <<genVars, ledgerVars, persistVars>>
    /\ UNCHANGED <<request, response, user_survey_responses, survey_profile>>

\* The `connection` event: the handshake token is checked; a failed check
\* answers with one error, closes and registers no handler.
WsConnect(token) ==
    /\ wsConn.pc = "none"
    /\ LET c == [wsConn EXCEPT !.token = token, !.readyState = "OPEN"]
       IN  IF token = "missing" \/ ~Verified(token)
           THEN wsConn' = [Closed(sendJSON(c, Msg("error", "Unauthorized")))
                              EXCEPT !.pc = "rejected"]
           ELSE wsConn' = [c EXCEPT !.pc = "open"]
    /\ UNCHANGED <<wsTrace, calls>>
    /\ WsFrame

MessageKinds == {"bad json", "not start", "no prompt", "start"}

\* Prompts sent on the connection: in scope, refused, reframed.
StreamPrompts == {{6}, {2}, {4}}

\* The first client message.  On a rejected connection nobody listens.
\* Otherwise the `message` handler runs up to the first chunk of the
\* provider stream, or up to the database step in database mode.
WsMessage(kind, mode, S, queryEmbedding, output) ==
    /\ \/ wsConn.pc = "rejected"
       \/ wsConn.pc = "open" /\ wsConn.readyState = "OPEN"
    /\ WsFrame
    /\ IF wsConn.pc = "rejected"
       THEN /\ wsConn' = [wsConn EXCEPT !.pc = "closed"]
            /\ UNCHANGED <<wsTrace, calls>>
       ELSE LET v     == isStrictlyInScope(S)
                looks == looksLikeParentingPrompt(S)
                effectivePrompt ==
                    IF ~v.isValid /\ looks
                    THEN reframeAsParenting(PromptWords(S), Note(TRUE))
                    ELSE PromptWords(S)
                begun == sendJSON([wsConn EXCEPT
                                      !.mode = mode,
                                      !.query = effectivePrompt,
                                      !.queryEmbedding = queryEmbedding],
                                  Msg("start", mode))
                streaming ==
                    [sendJSON(sendJSON(begun,
                                       Msg("phase", "openai:starting")),
                              Msg("phase", "openai:streaming"))
                        EXCEPT !.pc = "chunk", !.upstream = output]
            IN
            /\ wsTrace' = [wsTrace EXCEPT
                              !.payloads = @ + 1,
                              !.output = IF kind = "start"
                                            /\ ~Refused(v, looks)
                                            /\ mode # "database"
                                         THEN output ELSE @]
            /\ IF kind = "bad json"
               THEN /\ wsConn' = Closed(sendJSON(wsConn,
                                                 Msg("error", "Bad JSON")))
                    /\ UNCHANGED calls
               ELSE IF kind = "not start"
               THEN /\ wsConn' =
                          Closed(sendJSON(wsConn,
                                 Msg("error",
                                     "First message must be type=start")))
                    /\ UNCHANGED calls
               ELSE IF kind = "no prompt"
               THEN /\ wsConn' =
                          Closed(sendJSON(wsConn,
                                          Msg("error", "Prompt is required")))
                    /\ UNCHANGED calls
               ELSE IF Refused(v, looks)
               THEN /\ wsConn' = Closed(sendJSON(wsConn,
                                                 Msg("out_of_scope", "400")))
                    /\ calls' = <<"scope">>
               ELSE IF mode = "database"
               THEN /\ wsConn' = [begun EXCEPT !.pc = "after"]
                    /\ calls' = <<"scope", "store">>
               ELSE /\ wsConn' = streaming
                    /\ calls' = <<"scope", "store", "generate">>

\* The client goes away: the `close` handler sets the abort flag.
WsClientClose ==
    /\ wsConn.pc \in {"open", "chunk", "tip", "after"}
    /\ wsConn.readyState = "OPEN"
    /\ wsConn' = [wsConn EXCEPT
                     !.readyState = "CLOSED",
                     !.aborted = TRUE,
                     !.pc = IF @ = "open" THEN "closed" ELSE @]
    /\ UNCHANGED <<wsTrace, calls>>
    /\ WsFrame

\* Where the generator and the handler stand once the while loop has
\* suspended with d, for connection c and trace t.
Resume(c, t, d) ==
    LET t2 == [t EXCEPT !.linesAfterAbort =
                            @ + (IF c.aborted THEN d.lines ELSE 0)]
    IN  IF d.at = "chunk"
        THEN <<[c EXCEPT !.buf = d.buf, !.pc = "chunk", !.tip = None], t2>>
        ELSE IF d.at = "tip"
        THEN <<[c EXCEPT !.buf = d.buf, !.pc = "tip",
                         !.tip = StreamTip(d.value, c.counter),
                         !.counter = @ + 1],
               [t2 EXCEPT !.delivered = Append(@, d.value)]>>
        ELSE <<Closed(sendJSON([c EXCEPT !.buf = d.buf, !.tip = None],
                               Msg("error", "TypeError"))),
               [t2 EXCEPT !.ended = "thrown"]>>

\* One round of `for await (const part of stream)`: the abort flag is
\* tested, the delta of k tokens is appended and the while loop runs.
WsChunk(k) ==
    /\ wsConn.pc = "chunk"
    /\ wsConn.upstream # <<>>
    /\ k <= Len(wsConn.upstream)
    /\ WsFrame
    /\ UNCHANGED calls
    /\ IF wsConn.aborted
       THEN /\ wsConn' = [sendJSON(wsConn, Msg("phase", "openai:ended"))
                             EXCEPT !.pc = "after"]
            /\ wsTrace' = [wsTrace EXCEPT !.ended = "aborted"]
       ELSE IF k = 0
       THEN UNCHANGED <<wsConn, wsTrace>>
       ELSE LET c == [wsConn EXCEPT
                         !.buf = @ \o SubSeq(wsConn.upstream, 1, k),
                         !.upstream = SubSeq(@, k + 1, Len(@))]
                r == Resume(c, wsTrace, ProcessLines(c.buf, 0))
            IN  wsConn' = r[1] /\ wsTrace' = r[2]

\* The provider stream is exhausted.
WsStreamEnd ==
    /\ wsConn.pc = "chunk"
    /\ wsConn.upstream = <<>>
    /\ wsConn' = [sendJSON(wsConn, Msg("phase", "openai:ended"))
                     EXCEPT !.pc = "after"]
    /\ wsTrace' = [wsTrace EXCEPT !.ended = "exhausted"]
    /\ UNCHANGED calls
    /\ WsFrame

\* onTip settles: the tip was scored with the embedding the provider gave
\* for it, is sent if it passed, and the while loop goes on.
WsTipDone(tipEmbedding) ==
    /\ wsConn.pc = "tip"
    /\ LET scored == scoreSingleGeneratedTip(Caller, wsConn.query, wsConn.tip,
                                             wsConn.queryEmbedding,
                                             tipEmbedding)
           c == IF scored = None THEN wsConn
                ELSE sendJSON([wsConn EXCEPT !.emitted = @ + 1],
                              Msg("tip", "ai"))
           r == Resume(c, wsTrace, ProcessLines(c.buf, 0))
       IN  wsConn' = r[1] /\ wsTrace' = r[2]
    /\ calls' = calls \o <<"embed", "embed">>
    /\ WsFrame

\* After the stream: the database step if nothing was emitted, then done.
WsFinish ==
    /\ wsConn.pc = "after"
    /\ LET db == getContextualPersonalizedTips(Caller, wsConn.query,
                                               wsConn.queryEmbedding, 5)
           fallback == wsConn.emitted = 0
                       /\ wsConn.mode \in {"database", "hybrid"}
           c == IF fallback /\ db.tips # <<>>
                THEN sendJSON(wsConn, Msg("batch", "database")) ELSE wsConn
       IN  /\ wsConn' = Closed(sendJSON(c, Msg("done", "")))
           /\ calls' = IF fallback THEN calls \o <<"embed", "retrieve">>
                       ELSE calls
    /\ UNCHANGED wsTrace
    /\ WsFrame

InitStream == GenIdle /\ LedgerIdle /\ PipeIdle /\ NoSurvey

NextStream ==
    \/ \E token \in Tokens : WsConnect(token)
    \/ \E kind \in MessageKinds, mode \in Modes, S \in StreamPrompts, e \in QueryVectors, o \in ProviderOutputs : WsMessage(kind, mode, S, e, o)
    \/ WsClientClose
    \/ \E k \in 0..(2 * MaxLines + MaxLines) : WsChunk(k)
    \/ WsStreamEnd
    \/ \E v \in TipVectors : WsTipDone(v)
    \/ WsFinish

SpecStream == InitStream /\ [][NextStream]_vars

(***************************************************************************)
(* Claims about the streaming connection                                   *)
(***************************************************************************)
\* C14: once the client of a streaming request has disconnected (abort
\* flag set), no further generated line is taken from the buffer, parsed
\* or passed to the tip callback, lines already buffered from the current
\* chunk included.
C14_NoLineAfterAbort == wsTrace.linesAfterAbort = 0

\* The newline-terminated lines of a provider output.
RECURSIVE TerminatedLines(_)
TerminatedLines(out) ==
    LET idx == IndexOf(out, NL)
    IN  IF idx = 0 THEN <<>>
        ELSE <<SubSeq(out, 1, idx - 1)>>
             \o TerminatedLines(SubSeq(out, idx + 1, Len(out)))

\* The values of the well-formed JSON lines among them, in order.
WellFormedLines(out) ==
    LET good == SelectSeq(TerminatedLines(out), LAMBDA l : ParseLine(l).ok)
    IN  [i \in 1..Len(good) |-> ParseLine(good[i]).value]

IsPrefix(a, b) == Len(a) <= Len(b) /\ a = SubSeq(b, 1, Len(a))

\* C15: however the provider's output is split into chunks, the tips
\* passed to the tip callback are, in order and without duplicates, the
\* well-formed JSON lines among the newline-terminated lines of the
\* output: always a prefix of them, and all of them once the stream is
\* over without the client having gone away; no line ends the stream early.
C15_CallbackGetsWellFormedLines ==
    /\ IsPrefix(wsTrace.delivered, WellFormedLines(wsTrace.output))
    /\ wsTrace.ended \in {"exhausted", "thrown"} =>
          wsTrace.delivered = WellFormedLines(wsTrace.output)

\* C16: on a connection whose handshake token is missing or fails
\* verification no client payload is processed, no scope check, store read
\* or provider call is made, and the only message sent is one error.
C16_NoPayloadWithoutHandshake ==
    wsConn.token \in {"missing", "invalid"} =>
       /\ wsTrace.payloads = 0
       /\ calls = <<>>
       /\ wsConn.sent = <<Msg("error", "Unauthorized")>>
       /\ wsConn.pc \in {"rejected", "closed"}
       /\ wsConn.readyState = "CLOSED"

\* A client payload arrived on a connection rejected for its invalid token.
C16_Witness ==
    /\ wsConn.token = "invalid"
    /\ wsConn.pc = "closed"
    /\ wsConn.sent = <<Msg("error", "Unauthorized")>>
    /\ calls = <<>>

(***************************************************************************)
(* Reactions to tips, handled one request at a time: POST /interactions    *)
(* and POST /ai-interactions/batch with one item.  A generated tip comes   *)
(* with its payload and is first persisted in `tips`.                      *)
(***************************************************************************)
MaxReactions == 3    \* reaction requests in one behaviour

TipPayloadA ==
    [title      |-> <<"vocabulary", "games">>,
     body       |-> <<"name", "objects">>,
     details    |-> <<"keep", "it", "short">>,
     categories |-> <<"generated">>]

\* The same tip carrying the domain the provider gave it.
TipPayloadDomain ==
    [TipPayloadA EXCEPT !.categories = <<"language development">>]

\* A payload without body.
TipPayloadNoBody == [TipPayloadA EXCEPT !.body = <<>>]

TipPayloads == {TipPayloadA, TipPayloadDomain, TipPayloadNoBody}

\* {title, body, details} of a payload.
Content(payload) == <<payload.title, payload.body, payload.details>>

UpsertTitleMaxChars == 100

\* sha256 of `${title}|${body}|${details}`: equal digests, equal texts.
ContentHash(title, body, details) == [sha256 |-> <<title, body, details>>]

\* AUTO_INCREMENT of `tips`.
NextTipId ==
    LET ids == tips \cup DOMAIN tipRows
    IN  1 + (CHOOSE m \in ids : \A x \in ids : x <= m)

Resolved(id, row) == [threw |-> FALSE, id |-> id, insert |-> row]

\* upsertGeneratedTip: the outcomes it can have (SELECT ... LIMIT 1 may
\* give any of several matching rows).
upsertGeneratedTip(tipPayload) ==
    IF tipPayload.title = <<>> \/ tipPayload.body = <<>>
    THEN {[threw |-> TRUE, id |-> 0, insert |-> None]}
    ELSE LET title == SliceChars(tipPayload.title, UpsertTitleMaxChars)
             content_hash == ContentHash(title, tipPayload.body,
                                         tipPayload.details)
             existing == {id \in DOMAIN tipRows :
                             tipRows[id].content_hash = content_hash}
         IN  IF existing # {}
             THEN {Resolved(id, None) : id \in existing}
             ELSE {Resolved(NextTipId,
                            [type |-> "generated", title |-> title,
                             description |-> tipPayload.body,
                             source |-> "ai",
                             content_hash |-> content_hash])}

\* ensureTipExists for a client id that is not numeric.  The rows of the
\* catalog never match: their titles differ from every payload.
ensureTipExists(aiTip) ==
    LET title == IF aiTip.title # <<>> THEN aiTip.title ELSE <<"ai", "tip">>
        description == IF aiTip.body # <<>> THEN aiTip.body ELSE aiTip.details
        type == IF aiTip.categories # <<>> THEN aiTip.categories[1]
                ELSE "generated"
        existing == {id \in DOMAIN tipRows :
                        /\ tipRows[id].type = type
                        /\ tipRows[id].title = title
                        /\ tipRows[id].description = description}
    IN  IF existing # {}
        THEN {Resolved(id, None) : id \in existing}
        ELSE {Resolved(NextTipId,
                       [type |-> type, title |-> title,
                        description |-> description, source |-> "null",
                        content_hash |-> None])}

\* updateUserPreferenceProfile on the tables given: the new profile table.
updateUserPreferenceProfile(emb, rows, profiles, userId) ==
    LET L == {t \in DOMAIN emb : <<userId, t, "like">> \in rows}
        D == {t \in DOMAIN emb : <<userId, t, "dislike">> \in rows}
    IN  IF L = {} /\ D = {}
        THEN IF profiles[userId] = None THEN profiles
             ELSE [profiles EXCEPT ![userId].total_interactions = 0]
        ELSE [profiles EXCEPT ![userId] = ProfileRow(emb, L, D)]

\* trackUserInteraction run to its end with no other request in flight.
trackUserInteraction(tipIds, emb, rows, profiles, userId, tipId, interactionType) ==
    IF tipId \notin tipIds \/ userId \notin users
    THEN [ok |-> FALSE, rows |-> rows, profiles |-> profiles]
    ELSE LET rows2 ==
               IF interactionType \in {"like", "dislike"}
               THEN InsertInteraction(
                       DeleteInteraction(rows, userId, tipId,
                                         Opposite(interactionType)),
                       userId, tipId, interactionType)
               ELSE IF interactionType = "save"
               THEN InsertInteraction(rows, userId, tipId, "save")
               ELSE DeleteInteraction(rows, userId, tipId, "save")
         IN  [ok |-> TRUE, rows |-> rows2,
              profiles |-> updateUserPreferenceProfile(emb, rows2, profiles,
                                                       userId)]

ReactionPaths == {"/interactions", "/ai-interactions/batch"}

\* What a reaction refers to: a catalog tip by its numeric id, or a
\* generated tip by a `generated_...` id with its payload.
TipRefs ==
    {[numeric |-> TRUE, id |-> n, payload |-> None] : n \in CatalogTips}
    \cup {[numeric |-> FALSE, id |-> 0, payload |-> p] : p \in TipPayloads}

\* generateTipEmbedding threw: no row in tip_embeddings.
NoEmbedding == <<>>

\* What generateTipEmbedding gives for a new row.
NewEmbeddings == TipVectors \cup {NoEmbedding}

\* One reaction request from start to response.
React(path, tipRef, interactionType, embedding) ==
    LET numeric  == tipRef.numeric
        outcomes == IF numeric THEN {Resolved(tipRef.id, None)}
                    ELSE IF path = "/interactions"
                    THEN upsertGeneratedTip(tipRef.payload)
                    ELSE ensureTipExists(tipRef.payload)
    IN
    /\ Len(reactions) < MaxReactions
    /\ \E out \in outcomes :
         LET inserted == out.insert # None
             tips2 == IF inserted THEN tips \cup {out.id} ELSE tips
             rows2 == IF inserted
                      THEN [id \in DOMAIN tipRows \cup {out.id} |->
                               IF id = out.id THEN out.insert ELSE tipRows[id]]
                      ELSE tipRows
             emb2  == IF inserted /\ embedding # NoEmbedding
                      THEN [id \in DOMAIN tip_embeddings \cup {out.id} |->
                               IF id = out.id THEN embedding
                               ELSE tip_embeddings[id]]
                      ELSE tip_embeddings
             t     == IF out.threw
                      THEN [ok |-> FALSE, rows |-> user_tip_interactions,
                            profiles |-> user_preference_profiles]
                      ELSE trackUserInteraction(
                              tips2, emb2, user_tip_interactions,
                              user_preference_profiles, Caller, out.id,
                              interactionType)
         IN  /\ tips' = tips2
             /\ tipRows' = rows2
             /\ tip_embeddings' = emb2
             /\ user_tip_interactions' = t.rows
             /\ user_preference_profiles' = t.profiles
             /\ userPreferenceCache' =
                   IF t.ok THEN [userPreferenceCache EXCEPT ![Caller] = None]
                   ELSE userPreferenceCache
             /\ reactions' =
                   Append(reactions,
                          [path     |-> path,
                           content  |-> IF numeric THEN <<>>
                                        ELSE Content(tipRef.payload),
                           type     |-> interactionType,
                           id       |-> out.id,
                           inserted |-> inserted,
                           ok       |-> t.ok,
                           status   |-> IF path = "/interactions" /\ ~t.ok
                                        THEN 500 ELSE 200,
                           rows     |-> t.rows,
                           profile  |-> t.profiles[Caller]])
    /\ UNCHANGED <<rec, reader, started, reads, overlapped, subs, selection>>
    /\ UNCHANGED <<genVars, request, calls, response, user_survey_responses,
                   survey_profile, wsVars>>

InitPersist == GenIdle /\ LedgerIdle /\ PipeIdle /\ NoSurvey

NextPersist ==
    \E path \in ReactionPaths, tipRef \in TipRefs, type \in validTypes, e \in NewEmbeddings : React(path, tipRef, type, e)

SpecPersist == InitPersist /\ [][NextPersist]_vars

(***************************************************************************)
(* Claims about reactions                                                  *)
(***************************************************************************)
\* Submissions that resolved a generated tip to a row of `tips`.
Persisted(i) == reactions[i].content # <<>> /\ reactions[i].id # 0

\* C17: a generated tip that has been persisted, when submitted again with
\* identical {title, body, details}, resolves to the same tip id and
\* creates no second row, whichever path handled each submission.
C17_SameContentSameTip ==
    \A i, j \in 1..Len(reactions) :
        ( /\ i < j
          /\ Persisted(i) /\ Persisted(j)
          /\ reactions[i].content = reactions[j].content )
        => /\ reactions[j].id = reactions[i].id
           /\ ~reactions[j].inserted

\* Request i recorded for the same tip the type that request i - 1 recorded.
Repeated(i) ==
    /\ reactions[i].ok /\ reactions[i - 1].ok
    /\ reactions[i].id = reactions[i - 1].id
    /\ reactions[i].type = reactions[i - 1].type

\* C18: recording the same interaction type a second time for the same
\* (user, tip) leaves the interaction rows, the preference vector and the
\* total-interaction count as they were after the first recording.
C18_RepeatedRecordingChangesNothing ==
    \A i \in 2..Len(reactions) :
        Repeated(i) =>
           /\ reactions[i].rows = reactions[i - 1].rows
           /\ reactions[i].profile = reactions[i - 1].profile

\* A like of a tip recorded twice in a row, with a profile computed.
C18_Witness ==
    /\ Len(reactions) >= 2
    /\ Repeated(2)
    /\ reactions[2].type = "like"
    /\ <<Caller, reactions[2].id, "like">> \in user_tip_interactions
    /\ reactions[2].profile # None
    /\ reactions[2].profile.total_interactions = 1

(***************************************************************************)
(* Claims comparing the two guardrails                                     *)
(***************************************************************************)
\* C19: every query that the strict four-domain guardrail accepts
\* (isStrictlyInScope gives isValid = true) is accepted by the broad
\* guardrail too (classifyParentingQuery gives ok).
C19_StrictAcceptsImpliesBroadAccepts ==
    (request # None /\ isStrictlyInScope(request.prompt).isValid)
        => classifyParentingQuery(request.prompt) = "ok"

(***************************************************************************)
(* Encoded prompts.  The encoding of a prompt is known by its scheme, the  *)
(* number of its characters and the text it decodes to.                    *)
(***************************************************************************)
Schemes == {"base64", "hex"}

\* Bytes of the prompt: its characters and one space between two words.
PromptBytes(S) == SumChars(S) + Len(PromptWords(S)) - 1

\* Buffer.from(text).toString(scheme): base64 gives four characters for
\* every three bytes, padded; hex gives two characters for every byte.
Encode(scheme, S) ==
    [scheme |-> scheme,
     text   |-> S,
     chars  |-> IF scheme = "base64" THEN 4 * ((PromptBytes(S) + 2) \div 3)
                ELSE 2 * PromptBytes(S)]

\* looksBase64 on an encoding: hex digits are base64 characters too.
looksBase64Encoded(raw) == raw.chars >= 12 /\ raw.chars % 4 = 0

\* looksHex: a base64 encoding of a prompt has letters that are no hex
\* digits.
looksHex(raw) == raw.scheme = "hex" /\ raw.chars >= 16

\* tryBase64Decode: hex digits read as base64 give bytes that are no text.
tryBase64Decode(raw) ==
    IF raw.scheme = "base64" THEN [text |-> raw.text] ELSE None

tryHexDecode(raw) == [text |-> raw.text]

\* The recursive call on a decoded candidate.
ClassifyDecoded(dec) ==
    IF dec = None THEN ClassifyText({}) ELSE classifyParentingQuery(dec.text)

\* classifyParentingQuery on an encoding.  The encoding itself makes no
\* test of the classifier true.
classifyParentingQueryRaw(raw) ==
    LET decodedCandidates ==
            (IF looksBase64Encoded(raw) THEN <<tryBase64Decode(raw)>>
             ELSE <<>>)
            \o (IF looksHex(raw) THEN <<tryHexDecode(raw)>> ELSE <<>>)
        rejected == {i \in 1..Len(decodedCandidates) :
                        ClassifyDecoded(decodedCandidates[i]) # "ok"}
    IN  IF rejected # {}
        THEN ClassifyDecoded(
                decodedCandidates[CHOOSE i \in rejected :
                                     \A j \in rejected : i <= j])
        ELSE ClassifyText({})

\* C20: for every text the broad classifier rejects with category C, the
\* base64 encoding and the hex encoding of the text are rejected with the
\* same category C.
C20_EncodingKeepsCategory ==
    (request # None /\ classifyParentingQuery(request.prompt) # "ok")
        => \A scheme \in Schemes :
              classifyParentingQueryRaw(Encode(scheme, request.prompt))
                 = classifyParentingQuery(request.prompt)

(***************************************************************************)
(* Claims about the reject battery                                         *)
(***************************************************************************)
\* The prompt matches the self-harm pattern and no reject test that comes
\* before it: not the violence pattern, and no age above five.
SelfHarmFirst(S) ==
    /\ "DANGEROUS_PATTERNS[1]" \in PromptSignals(S)
    /\ "DANGEROUS_PATTERNS[0]" \notin PromptSignals(S)
    /\ "age > 5" \notin PromptSignals(S)
    /\ ~looksBase64(S)

\* C21: a query that matches the self-harm pattern and no earlier reject
\* pattern is rejected with the self-harm category, and a refusal sent to
\* the requester carries the crisis message.
C21_SelfHarmGetsCrisisMessage ==
    (request # None /\ SelfHarmFirst(request.prompt)) =>
       /\ classifyParentingQuery(request.prompt) = "self_harm"
       /\ (response # None /\ response.status = 400) =>
             response.message = CrisisMessage

(***************************************************************************)
(* Profile recomputes over a tips table whose embeddings are drawn from    *)
(* unit vectors that can cancel: 0.6 * <<25, 0>> is the average of         *)
(* <<15, 20>> and <<15, -20>>.                                             *)
(***************************************************************************)
ProfileTips == 1..3

ProfileVectors == {<<15, 20>>, <<15, -20>>, <<25, 0>>}

InitProfile ==
    /\ GenIdle /\ PipeIdle /\ NoSurvey
    /\ tips = ProfileTips
    /\ tip_embeddings \in [ProfileTips -> ProfileVectors]
    /\ user_tip_interactions = {}
    /\ user_preference_profiles = [u \in UserIds |-> None]
    /\ userPreferenceCache = [u \in UserIds |-> None]
    /\ rec = [p \in Procs |-> IdleRec]
    /\ reader = IdleReader
    /\ started = 0
    /\ reads = 0
    /\ overlapped = FALSE

\* POST /interactions for a tip of the table.
NextProfile ==
    \E t \in ProfileTips, type \in validTypes : React("/interactions", [numeric |-> TRUE, id |-> t, payload |-> None], type, NoEmbedding)

SpecProfile == InitProfile /\ [][NextProfile]_vars

\* A stored vector has norm 1 unless it is the zero vector.
IsUnitNorm(v) == v # Zero

\* The last request recomputed the profile from at least one embedding.
Recomputed ==
    /\ reactions # <<>>
    /\ reactions[Len(reactions)].ok
    /\ EmbeddedRows(Caller, "like") \cup EmbeddedRows(Caller, "dislike") # {}

\* C22: after every profile recompute in which the user has at least one
\* liked or disliked tip embedding, the persisted preference vector has
\* norm 1, also when the like average and 0.6 times the dislike average
\* cancel.
C22_PreferenceVectorUnitNorm ==
    Recomputed =>
       IsUnitNorm(user_preference_profiles[Caller].preference_embedding)

(***************************************************************************)
(* Claims about sanitized tip text                                         *)
(***************************************************************************)
\* Words that match the URL, contact or profanity patterns.
UnsafeWords == UrlWords \cup ContactWords \cup ProfanityWords

NoUnsafeWord(text) == \A i \in 1..Len(text) : text[i] \notin UnsafeWords

\* C23: no title, body or details of a generated tip returned to a caller
\* holds text matching the URL, phone, contact or profanity patterns:
\* every occurrence in the provider's text is replaced, not only the first.
C23_ReturnedTipsHoldNoUnsafeText ==
    (genPc = "returned" /\ ~AllAttemptsFailed) =>
       \A i \in 1..Len(genReturn) :
          /\ NoUnsafeWord(genReturn[i].title)
          /\ NoUnsafeWord(genReturn[i].body)
          /\ NoUnsafeWord(genReturn[i].details)

(***************************************************************************)
(* Claims about save and unsave                                            *)
(***************************************************************************)
\* The interaction rows before request i was handled.
RowsBefore(i) == IF i = 1 THEN {} ELSE reactions[i - 1].rows

\* Request i recorded save or unsave.
SaveRecorded(i) == reactions[i].ok /\ reactions[i].type \in {"save", "unsave"}

FailedRetryable(k) ==
    /\ k <= Len(waits)
    /\ ~IsValidAnswer(attemptLog[k])
    /\ ~IsRateLimitOrQuota(attemptLog[k])

\* C25: after the k-th failed attempt (k = 1, 2, 3) that is no rate-limit
\* or quota error, the call waits 2^k seconds before its next step; no
\* retry is issued without the backoff delay before it.
C25_BackoffBeforeNextStep ==
    \A k \in 1..Len(attemptLog) :
        FailedRetryable(k) => waits[k] = 2 ^ k

(***************************************************************************)
(* Claims about concurrent recordings                                      *)
(***************************************************************************)
\* Two single recordings that overlapped in time have both returned 200,
\* one a like and one a dislike of tip t by user u.
LikeAndDislikeTogether(u, t) ==
    /\ Quiescent
    /\ overlapped
    /\ started = 2
    /\ \E p, q \in Procs :
          /\ rec[p].pc = "responded" /\ rec[q].pc = "responded"
          /\ rec[p].endpoint = "single" /\ rec[q].endpoint = "single"
          /\ rec[p].response.status = 200 /\ rec[q].response.status = 200
          /\ rec[p].userId = u /\ rec[q].userId = u
          /\ rec[p].tipId = t /\ rec[q].tipId = t
          /\ rec[p].interactionType = "like"
          /\ rec[q].interactionType = "dislike"

\* C26: when a like and a dislike of the same (user, tip) pair are recorded
\* concurrently, the pair has exactly one of the two rows once both
\* recordings have returned, under every interleaving.
C26_ConcurrentLikeDislikeExclusive ==
    \A u \in UserIds, t \in tips :
        LikeAndDislikeTogether(u, t) =>
           (<<u, t, "like">> \in user_tip_interactions)
              # (<<u, t, "dislike">> \in user_tip_interactions)

(***************************************************************************)
(* Two submissions of a generated tip in flight at the same time.  A step  *)
(* is one database statement of upsertGeneratedTip / ensureTipExists with  *)
(* the code that follows it up to the next statement.                      *)
(***************************************************************************)
SubInFlight(p) == subs[p].pc \in {"select", "insert", "track"}

SubFrame ==
    /\ UNCHANGED <<rec, reader, started, reads, overlapped, reactions,
                   selection>>
    /\ UNCHANGED <<genVars, request, calls, response, user_survey_responses,
                   survey_profile, wsVars>>

\* The handler is entered with a `generated_...` id and the payload.
SubmitStart(p, path, payload) ==
    /\ subs[p].pc = "idle"
    /\ LET other == \E q \in Procs \ {p} : SubInFlight(q) IN
       subs' = [q \in Procs |->
                  IF q = p
                  THEN [pc |-> "select", path |-> path, payload |-> payload,
                        row |-> None, id |-> 0, together |-> other]
                  ELSE IF SubInFlight(q)
                  THEN [subs[q] EXCEPT !.together = TRUE]
                  ELSE subs[q]]
    /\ UNCHANGED <<dbVars, userPreferenceCache, tipRows>>
    /\ SubFrame

\* The SELECT that looks for a row with the same content.
SubmitSelect(p) ==
    /\ subs[p].pc = "select"
    /\ \E out \in (IF subs[p].path = "/interactions"
                   THEN upsertGeneratedTip(subs[p].payload)
                   ELSE ensureTipExists(subs[p].payload)) :
          subs' = [subs EXCEPT ![p] =
                     IF out.threw THEN [@ EXCEPT !.pc = "failed"]
                     ELSE IF out.insert = None
                     THEN [@ EXCEPT !.pc = "track", !.id = out.id]
                     ELSE [@ EXCEPT !.pc = "insert", !.row = out.insert]]
    /\ UNCHANGED <<dbVars, userPreferenceCache, tipRows>>
    /\ SubFrame

\* Rows of `tips` that hold the content hash of row.
SameHash(row) ==
    {id \in DOMAIN tipRows :
        row.content_hash # None /\ tipRows[id].content_hash = row.content_hash}

\* The INSERT and the embedding that follows it.  The schema of `tips` is
\* not part of the repository: with a unique key on content_hash the INSERT
\* of a hash that is already there fails (duplicate), without one it adds
\* a second row.
SubmitInsert(p, duplicate, embedding) ==
    /\ subs[p].pc = "insert"
    /\ duplicate => SameHash(subs[p].row) # {}
    /\ IF duplicate
       THEN /\ subs' = [subs EXCEPT ![p].pc = "failed"]
            /\ UNCHANGED <<dbVars, tipRows>>
       ELSE LET id == NextTipId IN
            /\ tips' = tips \cup {id}
            /\ tipRows' = [i \in DOMAIN tipRows \cup {id} |->
                              IF i = id THEN subs[p].row ELSE tipRows[i]]
            /\ tip_embeddings' =
                  IF embedding # NoEmbedding
                  THEN [i \in DOMAIN tip_embeddings \cup {id} |->
                           IF i = id THEN embedding ELSE tip_embeddings[i]]
                  ELSE tip_embeddings
            /\ subs' = [subs EXCEPT ![p].pc = "track", ![p].id = id]
            /\ UNCHANGED <<user_tip_interactions, user_preference_profiles>>
    /\ UNCHANGED userPreferenceCache
    /\ SubFrame

\* trackUserInteraction for the resolved id, and the response.
SubmitTrack(p, interactionType) ==
    /\ subs[p].pc = "track"
    /\ LET t == trackUserInteraction(tips, tip_embeddings,
                                     user_tip_interactions,
                                     user_preference_profiles, Caller,
                                     subs[p].id, interactionType)
       IN  /\ user_tip_interactions' = t.rows
           /\ user_preference_profiles' = t.profiles
           /\ userPreferenceCache' =
                 IF t.ok THEN [userPreferenceCache EXCEPT ![Caller] = None]
                 ELSE userPreferenceCache
           /\ subs' = [subs EXCEPT ![p].pc = "responded"]
    /\ UNCHANGED <<tips, tip_embeddings, tipRows>>
    /\ SubFrame

InitSubmit == GenIdle /\ LedgerIdle /\ PipeIdle /\ NoSurvey

NextSubmit ==
    \/ \E p \in Procs, path \in ReactionPaths, payload \in TipPayloads : SubmitStart(p, path, payload)
    \/ \E p \in Procs : SubmitSelect(p)
    \/ \E p \in Procs, duplicate \in BOOLEAN, e \in NewEmbeddings : SubmitInsert(p, duplicate, e)
    \/ \E p \in Procs : SubmitTrack(p, "like")

SpecSubmit == InitSubmit /\ [][NextSubmit]_vars

\* Rows of `tips` holding the title and the text of a payload.
RowsWithContent(payload) ==
    {id \in DOMAIN tipRows :
        /\ tipRows[id].title = payload.title
        /\ tipRows[id].description =
              (IF payload.body # <<>> THEN payload.body ELSE payload.details)}

\* Both submissions are over; they carried the same {title, body, details}
\* and were in flight at the same time.
SubmittedTogether ==
    /\ \A p \in Procs : subs[p].pc \in {"responded", "failed"}
    /\ \A p \in Procs : subs[p].together
    /\ \A p, q \in Procs : Content(subs[p].payload) = Content(subs[q].payload)
    /\ \E p \in Procs : subs[p].pc = "responded"

\* C27: when two submissions of a generated tip with identical {title,
\* body, details} are processed concurrently, at most one tip row with
\* that content exists afterwards and both resolve to the same tip id.
C27_ConcurrentSubmissionsOneRow ==
    SubmittedTogether =>
       /\ \A p \in Procs : Cardinality(RowsWithContent(subs[p].payload)) <= 1
       /\ \A p, q \in Procs :
             /\ subs[p].pc = "responded"
             /\ subs[p].id = subs[q].id

(***************************************************************************)
(* POST /survey: the survey row is saved, one embedding is stored for each *)
(* selected option, and updateCombinedPreferenceProfile blends their       *)
(* average with the stored preference vector.  Vectors of the blend are    *)
(* written at length UnitLength.                                           *)
(***************************************************************************)
UnitLength == 1000
ProviderLength == 25

\* A stored unit vector at length UnitLength.
AtUnitLength(p) ==
    IF p = Zero THEN Zero
    ELSE LET sp == Scaled(p)
             n  == Isqrt(Dot(sp, sp))
         IN  <<(sp[1] * UnitLength) \div n, (sp[2] * UnitLength) \div n>>

\* surveyAverage of the rows of survey_preference_embeddings.
SurveyAverage(vectors) ==
    LET sum == SumEmbeddings(vectors, DOMAIN vectors)
        k   == Len(vectors)
    IN  <<(sum[1] * (UnitLength \div ProviderLength)) \div k,
          (sum[2] * (UnitLength \div ProviderLength)) \div k>>

\* Math.max(0.3, 0.7 - interactions * 0.02), in percent.
SurveyWeight(interactions) == Max(30, 70 - 2 * interactions)

\* combinedEmbedding after `if (norm > 0)` normalizing.
CombinedEmbedding(surveyAverage, interactionEmbedding, interactions) ==
    IF interactionEmbedding = None THEN Normalize(surveyAverage)
    ELSE LET surveyWeight == SurveyWeight(interactions) IN
         Normalize(VAdd(VScale(surveyWeight, surveyAverage),
                        VScale(100 - surveyWeight,
                               AtUnitLength(interactionEmbedding))))

\* COUNT(*) FROM user_tip_interactions WHERE user_id
InteractionCount(rows, userId) == Cardinality({r \in rows : r[1] = userId})

SurveyAnswers ==
    {SurveyRow, [SurveyRow EXCEPT !.challenge_areas = <<"tantrums">>]}

SelectedOptions(survey) ==
    survey.content_preferences \o survey.challenge_areas
    \o survey.parenting_goals

\* The embeddings that were stored: a failed embedding call stores no row.
Stored(embeddings) ==
    Flatten([i \in 1..Len(embeddings) |->
                IF embeddings[i] = NoEmbedding THEN <<>>
                ELSE <<embeddings[i]>>])

\* One POST /survey request of the caller from start to response.
SurveySubmit(survey, embeddings) ==
    LET vectors  == Stored(embeddings)
        existing == user_preference_profiles[Caller]
        interactionEmbedding ==
            IF existing = None THEN None ELSE existing.preference_embedding
        interactions ==
            InteractionCount(user_tip_interactions, Caller)
        combined ==
            CombinedEmbedding(SurveyAverage(vectors), interactionEmbedding,
                              interactions)
        profile ==
            [preference_embedding |-> combined,
             total_interactions   |-> IF existing = None THEN 0
                                      ELSE existing.total_interactions]
    IN
    /\ Len(reactions) < MaxReactions
    /\ Len(embeddings) = Len(SelectedOptions(survey))
    /\ user_survey_responses' = [user_survey_responses EXCEPT ![Caller] = survey]
    /\ IF vectors = <<>>
       THEN UNCHANGED <<user_preference_profiles, survey_profile>>
       ELSE /\ user_preference_profiles' =
                  [user_preference_profiles EXCEPT ![Caller] = profile]
            /\ survey_profile' =
                  [survey_profile EXCEPT ![Caller] =
                      [survey_embedding |-> SurveyAverage(vectors),
                       survey_weight |->
                          IF interactionEmbedding = None THEN 70
                          ELSE SurveyWeight(interactions)]]
    /\ reactions' =
          Append(reactions,
                 [path |-> "/survey", content |-> <<>>, type |-> "survey",
                  id |-> 0, inserted |-> FALSE, ok |-> TRUE, status |-> 200,
                  rows |-> user_tip_interactions,
                  profile |-> user_preference_profiles'[Caller]])
    /\ UNCHANGED <<tips, tip_embeddings, user_tip_interactions,
                   userPreferenceCache, rec, reader, started, reads,
                   overlapped, tipRows, subs, selection>>
    /\ UNCHANGED <<genVars, request, calls, response, wsVars>>

InitSurvey == GenIdle /\ LedgerIdle /\ PipeIdle /\ NoSurvey

NextSurvey ==
    \/ \E survey \in SurveyAnswers, e \in SeqsUpTo(NewEmbeddings, 2) : SurveySubmit(survey, e)
    \/ \E t \in CatalogTips, type \in validTypes : React("/interactions", [numeric |-> TRUE, id |-> t, payload |-> None], type, NoEmbedding)

SpecSurvey == InitSurvey /\ [][NextSurvey]_vars

\* The last request recorded a like or a dislike of a user who has a
\* survey-derived embedding.
RecordedAfterSurvey ==
    /\ reactions # <<>>
    /\ reactions[Len(reactions)].ok
    /\ reactions[Len(reactions)].type \in {"like", "dislike"}
    /\ survey_profile[Caller] # None

\* C28: for a user who has a survey-derived embedding, after a later like
\* or dislike is recorded the stored preference embedding is still the
\* normalized blend weight * survey + (1 - weight) * interaction vector,
\* with weight = max(0.3, 0.7 - 0.02 * interactions).
C28_BlendSurvivesRecording ==
    RecordedAfterSurvey =>
       user_preference_profiles[Caller].preference_embedding =
          CombinedEmbedding(
             survey_profile[Caller].survey_embedding,
             PreferenceVector(tip_embeddings, EmbeddedRows(Caller, "like"),
                              EmbeddedRows(Caller, "dislike")),
             InteractionCount(user_tip_interactions, Caller))

\* ---------------------------------------------------------------------
\* The end of the provider stream (generateTipsStreamNDJSON, after the
\* for-await loop).

\* What is left of the output after its last line feed: the content of the
\* line buffer when the stream ends.
RECURSIVE LastLine(_)
LastLine(out) ==
    LET idx == IndexOf(out, NL)
    IN  IF idx = 0 THEN out ELSE LastLine(SubSeq(out, idx + 1, Len(out)))

\* A line that holds one whole tip object.
IsTipObject(line) == ParseLine(line).ok /\ ParseLine(line).value # Null

\* The stream ran to its end with a whole tip object left in the buffer.
TipLeftInBuffer ==
    /\ wsTrace.ended = "exhausted"
    /\ IsTipObject(LastLine(wsTrace.output))

\* C29: when the provider stream ends with a well-formed tip object still in
\* the line buffer, not followed by a line feed, that object has been passed
\* to the tip callback by the time 'openai:ended' is reported: it is the
\* last tip delivered, and as many tips were delivered as the output holds
\* well-formed tip objects.
C29_LastLineWithoutNewlineDelivered ==
    TipLeftInBuffer =>
       /\ Len(wsTrace.delivered) = Len(WellFormedLines(wsTrace.output)) + 1
       /\ wsTrace.delivered[Len(wsTrace.delivered)]
             = ParseLine(LastLine(wsTrace.output)).value

\* ---------------------------------------------------------------------
\* Random tip selection by location type: POST /tips of routes/location.js
\* and POST /get-tips.

MaxStored == 4       \* rows of the table `tips` read by the two handlers

LocationTypes == {"home", "park"}

SelectionRoutes == {"/tips", "/get-tips"}

\* rows[i] for an index that is not in the array.
Undefined == [undefined |-> TRUE]

\* SELECT * FROM tips WHERE type = ?  over a table given by the type of
\* each of its rows; the id of a row is its position.
RowsOfType(table, type) ==
    LET all == [i \in 1..Len(table) |-> [id |-> i, type |-> table[i]]]
    IN  SelectSeq(all, LAMBDA row : row.type = type)

\* Math.floor(Math.random() * rows.length)
RandomIndexes(rows) ==
    IF Len(rows) = 0 THEN {0} ELSE 0..(Len(rows) - 1)

\* rows[randomIndex], counted from 0 as the code counts.
RowAt(rows, randomIndex) ==
    IF randomIndex + 1 \in 1..Len(rows) THEN rows[randomIndex + 1]
    ELSE Undefined

\* The condition of the while loop of each handler.
WhileCondition(route, randomIndices, rows) ==
    IF route = "/tips"
    THEN Len(randomIndices) < 3
    ELSE Len(randomIndices) < 3 /\ Len(randomIndices) < Len(rows)

\* What the chat completion of the AI branch of /get-tips can be: a JSON
\* array of exactly three tips, any other text, or a failed call.
Completions == {"three", "other", "throws"}

SelectFrame ==
    /\ UNCHANGED <<genVars, ledgerVars>>
    /\ UNCHANGED <<request, calls, response, user_survey_responses,
                   survey_profile, wsVars, tipRows, reactions, subs>>

\* The handler up to its while loop: the query, and for /get-tips with AI
\* set the whole generating branch.
SelectStart(route, type, AI, table, dbOk, completion) ==
    /\ selection.pc = "idle"
    /\ LET rows == RowsOfType(table, type)
           s == [selection EXCEPT !.route = route, !.type = type,
                                  !.table = table, !.random = FALSE]
       IN  selection' =
              IF ~dbOk
              THEN [s EXCEPT !.pc = "done",
                             !.response = [status |-> 500,
                                           body |-> "No tips found"]]
              ELSE IF route = "/get-tips" /\ AI
              THEN [s EXCEPT
                      !.pc = "done", !.rows = rows,
                      !.response =
                         IF completion = "three"
                         THEN [status |-> 200, body |-> "generatedTips"]
                         ELSE IF completion = "other"
                         THEN [status |-> 500,
                               body |-> "Error generating tips"]
                         ELSE [status |-> 500, body |-> "No tips found"]]
              ELSE [s EXCEPT !.pc = "loop", !.rows = rows, !.random = TRUE]
    /\ SelectFrame

\* One round of the while loop with the index Math.random gave.
SelectDraw(randomIndex) ==
    /\ selection.pc = "loop"
    /\ WhileCondition(selection.route, selection.randomIndices,
                      selection.rows)
    /\ randomIndex \in RandomIndexes(selection.rows)
    /\ selection' =
          IF \E i \in 1..Len(selection.randomIndices) :
                selection.randomIndices[i] = randomIndex
          THEN selection
          ELSE [selection EXCEPT
                  !.randomIndices = Append(@, randomIndex),
                  !.tips = Append(@, RowAt(selection.rows, randomIndex))]
    /\ SelectFrame

\* The loop is left and the tips are sent.
SelectRespond ==
    /\ selection.pc = "loop"
    /\ ~WhileCondition(selection.route, selection.randomIndices,
                       selection.rows)
    /\ selection' = [selection EXCEPT
                       !.pc = "done",
                       !.response = [status |-> 200,
                                     body |-> selection.tips]]
    /\ SelectFrame

InitSelect == GenIdle /\ LedgerIdle /\ PipeIdle /\ NoSurvey

NextSelect ==
    \/ \E route \in SelectionRoutes, type \in LocationTypes, AI \in BOOLEAN, table \in SeqsUpTo(LocationTypes, MaxStored), dbOk \in BOOLEAN, completion \in Completions : SelectStart(route, type, AI, table, dbOk, completion)
    \/ \E randomIndex \in 0..(MaxStored - 1) : SelectDraw(randomIndex)
    \/ SelectRespond

\* Math.random gives every index again and again, and a handler that can
\* respond does.
SelectFairness ==
    /\ \A randomIndex \in 0..(MaxStored - 1) : WF_vars(SelectDraw(randomIndex))
    /\ WF_vars(SelectRespond)

SpecSelect == InitSelect /\ [][NextSelect]_vars /\ SelectFairness

\* The tips of a body are distinct stored rows of the requested type.
DistinctOfType(body, type) ==
    /\ \A i \in 1..Len(body) : body[i] # Undefined /\ body[i].type = type
    /\ \A i, j \in 1..Len(body) : i # j => body[i] # body[j]

\* The answer of a random selection holds min(3, available) distinct tips
\* of the requested type.
SelectionAnswered ==
    (selection.pc = "done" /\ selection.random) =>
       /\ selection.response.status = 200
       /\ Len(selection.response.body)
             = (IF Len(selection.rows) < 3 THEN Len(selection.rows) ELSE 3)
       /\ DistinctOfType(selection.response.body, selection.type)

\* C30: a random tip selection request that has read the stored tips of
\* the requested type, however many there are, goes on to respond, and its
\* response holds min(3, number available) distinct tips of that type.
C30_RandomSelectionTerminates ==
    /\ [](SelectionAnswered)
    /\ (selection.pc = "loop") ~> (selection.pc = "done")

====
